---------------------------- MODULE Spec2Model ----------------------------
(***************************************************************************)
(* Model of f5-declarative-onboarding:                                     *)
(*   - State (src/lib/state.js): the store of tasks and original configs; *)
(*   - AuthHandler (src/lib/authHandler.js): the promise chain that        *)
(*     applies the authentication part of a declaration to the device;     *)
(*   - the reconciliation of a declaration (ConfigTranslator, DiffPlanner, *)
(*     ReconciliationCoordinator, RollbackManager), whose code is not part *)
(*     of src/ and is modelled from the specification.                     *)
(*                                                                         *)
(* Conventions.                                                            *)
(*   An optional JavaScript value is a sequence of length at most one:     *)
(*   <<>> is undefined (property absent), <<v>> is the value v.  Where an  *)
(*   absent property and one whose value is undefined read differently     *)
(*   (the fields of a task and of the objects every object inherits from), *)
(*   the latter is OwnUndefined.                                           *)
(*   A JavaScript object is a function from property names to atoms and   *)
(*   objects; the atom Undefined is a property whose value is undefined.   *)
(***************************************************************************)
EXTENDS Integers, Sequences, FiniteSets, TLC

(***************************************************************************)
(* Bounds of the model.                                                    *)
(***************************************************************************)
\* number of task ids uuidv4 hands out in one run
MaxTasks == 2
\* number of State method calls in one run
MaxOps == 3
\* the clock reads up to MaxSpan retention windows and MaxSpan milliseconds
MaxSpan == 1
\* number of RemoteAuthRole entries of a declaration
MaxRoles == 2
\* number of inline LDAP certificates/keys of a declaration
MaxCerts == 2
\* number of declarations submitted to one device
MaxRuns == 3

(***************************************************************************)
(* Program constants.                                                      *)
(***************************************************************************)
TASK_RETENTION_DAYS == 7
maxAge == TASK_RETENTION_DAYS * 1000 * 3600 * 24
NotFound == "taskId does not exist"
SyntaxError == "SyntaxError"
TypeError == "TypeError"
NoError == "none"

(***************************************************************************)
(* JavaScript values.                                                      *)
(***************************************************************************)
None == << >>
Some(v) == << v >>
IsSome(o) == Len(o) = 1
Undefined == "undefined"

\* truthiness of an optional number, string or object/array
TruthyNum(o) == IsSome(o) /\ o[1] # 0
TruthyStr(o) == IsSome(o) /\ o[1] # ""
TruthyObj(o) == IsSome(o)

\* an own property whose value is undefined: it reads as undefined and
\* hides the property of that name the object inherits
OwnUndefined == << Undefined, Undefined >>
\* the own property that the assignment of arg creates
Assigned(arg) == IF IsSome(arg) THEN arg ELSE OwnUndefined
\* the value of an own property
ValueOf(o) == IF IsSome(o) THEN o ELSE None

\* JSON.parse(JSON.stringify(obj)) of an object, at every depth: a property
\* whose value is undefined is dropped, an object is copied property by
\* property, every other property is copied.  The properties named in
\* nested (the partition, the classes and the named items of a
\* configuration) hold objects, every other property holds an atom, and
\* the atoms are strings.
nested == { "Common", "System", "VLAN", "v1", "v2" }
RECURSIVE JsonCopy(_)
JsonCopy(obj) ==
    LET keep == { k \in DOMAIN obj : k \in nested \/ obj[k] # Undefined }
    IN  [ k \in keep |-> IF k \in nested THEN JsonCopy(obj[k]) ELSE obj[k] ]

\* a Date (isDate) holds its time in ms; after a JSON round trip it is the
\* ISO string of that time (isDate = FALSE)
DateOf(t) == [isDate |-> TRUE, ms |-> t]
JsonDate(d) == [isDate |-> FALSE, ms |-> d.ms]

\* now - lastUpdate > maxAge; a string operand makes the difference NaN,
\* and every comparison with NaN is false
OlderThanMaxAge(t, lastUpdate) ==
    IF lastUpdate.isDate THEN t - lastUpdate.ms > maxAge ELSE FALSE

(***************************************************************************)
(* Inputs.                                                                 *)
(***************************************************************************)
TaskIds == 1 .. MaxTasks
ConfigIds == {"m1", "m2"}
\* the property names every object inherits from Object.prototype, as task
\* ids and as config ids: uuidv4 never hands one out, a caller that takes
\* its ids from outside can pass one.  A lookup by 'constructor' in tasks or
\* in originalConfig finds the function Object, one by 'toString' or
\* 'hasOwnProperty' the function of that name, one by '__proto__' the
\* prototype of the object looked in.  As a task id, the i-th name is -i.
InheritedNames == << "constructor", "toString", "hasOwnProperty", "__proto__" >>
InheritedIds == { -i : i \in DOMAIN InheritedNames }
NameOf(taskId) == InheritedNames[-taskId]
ObjectPrototype == "__proto__"
\* where Object.prototype stands among the inherited objects
PrototypeAt == CHOOSE i \in DOMAIN InheritedNames : InheritedNames[i] = ObjectPrototype
\* the name property of the function found under an inherited name
FunctionName(name) == IF name = "constructor" THEN "Object" ELSE name

CfgA == [hostname |-> "bigip1"]
\* a configuration with an undefined property, at the top and inside Common
CfgU == [hostname |-> "bigip1", mtu |-> Undefined, Common |-> [mtu |-> Undefined]]
CfgVals == {CfgU}
CfgArgs == {None} \cup { Some(c) : c \in CfgVals }

CodeArgs == {None, Some(200), Some(422)}
StatusArgs == {None, Some("OK"), Some("ERROR"), Some("ROLLING_BACK"), Some("FAILED")}
MessageArgs == {None, Some("invalid config")}
BoolArgs == {None, Some(TRUE)}

\* the errors argument of updateResult: undefined, a string or an array
ErrStr(s) == [isArray |-> FALSE, items |-> << s >>]
ErrArr(a) == [isArray |-> TRUE, items |-> a]
ErrorArgs == {None, Some(ErrStr("e1")), Some(ErrArr(<< "e2", "e1" >>))}
\* the code, status and message arguments of updateResult
ResultArg(code, status, message) == [code |-> code, status |-> status, message |-> message]
ResultArgs == { ResultArg(None, None, None),
                ResultArg(Some(422), None, None),
                ResultArg(None, Some("ERROR"), Some("invalid config")),
                ResultArg(Some(200), Some("OK"), None) }
\* the errors argument of setErrors: undefined or an array
ErrorsArrayArgs == {None, Some(<< >>), Some(<< "e3" >>)}

\* declarations: objects with secret-bearing and other properties
RawSecrets == {"s3cret", "bindpw"}
Redacted == "<redacted>"
SecretKeys == {"bindPassword", "secret"}
DeclA == [hostname |-> "bigip1"]
DeclB == [hostname |-> "bigip1", bindPassword |-> "bindpw"]
DeclC == [bindPassword |-> "bindpw", secret |-> "s3cret"]
Declarations == {DeclA, DeclB, DeclC}
EmptyObj == [ k \in {} |-> Undefined ]

VARIABLES
    tasks,            \* State.tasks: task id -> task record
    originalConfig,   \* State.originalConfig: config id -> config
    mostRecentTask,   \* State.mostRecentTask: <<>> (null) or <<id>>
    now,              \* the wall clock read by new Date(), in ms
    nextId,           \* number of ids uuidv4 has handed out
    ops,              \* number of State method calls made
    last              \* the latest call: its name, task id, declaration
                      \* argument, result arguments and the error it threw

VARIABLES
    decl,             \* AuthHandler.declaration, reduced to what the handler reads
    calls,            \* the remote calls issued through bigIp, in issue order
    pc,               \* where the promise returned by process() stands
    certPc            \* where each LDAP certificate chain (handleCert) stands

VARIABLES
    existingState     \* the data object handed to new State(existingState),
                      \* as the constructor leaves it: <<>> when there is none

VARIABLES
    device,           \* the DeviceConfig of the appliance: class -> name -> properties
    job,              \* the reconciliation in hand: phase, declaration, snapshot,
                      \* operations still to apply, result code
    runs              \* number of declarations submitted

VARIABLES
    passed            \* the argument of the latest call that sets a configuration:
                      \* the value the caller's object has now (<<>> for
                      \* undefined), and the places of the store, <<task id,
                      \* field>> or <<0, config id>>, that hold that very object

VARIABLES
    inherited         \* objects: the objects a lookup by an inherited name
                      \* finds (Object.prototype under '__proto__'), each with
                      \* the properties the store has written on it; proto: the
                      \* object put in the place of the prototype of
                      \* this.originalConfig (<<>> while it is Object.prototype);
                      \* ids: the inherited names the callers of this run pass

storeVars == << tasks, originalConfig, mostRecentTask >>
stateVars == << tasks, originalConfig, mostRecentTask, now, nextId, ops, last >>
authVars == << decl, calls, pc, certPc >>
planVars == << device, job, runs >>
vars == << tasks, originalConfig, mostRecentTask, now, nextId, ops, last,
           decl, calls, pc, certPc, existingState, device, job, runs, passed,
           inherited >>

\* the arguments of a call that are recorded: those of updateResult
NoArgs == [code |-> None, status |-> None, message |-> None, errors |-> None]
NoCall == [op |-> "new", id |-> 0, decl |-> EmptyObj, args |-> NoArgs, threw |-> NoError]
Call(op, id, threw) ==
    [op |-> op, id |-> id, decl |-> EmptyObj, args |-> NoArgs, threw |-> threw]

(***************************************************************************)
(* State: helpers                                                          *)
(***************************************************************************)
EmptyResult == [code |-> None, status |-> None, message |-> None, errors |-> None]

\* the object literal of addTask
NewTask(taskId, t) ==
    [ id |-> taskId,
      lastUpdate |-> DateOf(t),
      result |-> EmptyResult,
      internalDeclaration |-> EmptyObj,
      currentConfig |-> None,
      originalConfig |-> None,
      rebootRequired |-> None,
      requestOptions |-> None,
      rollbackInfo |-> None,
      traceCurrent |-> None,
      traceDesired |-> None,
      traceDiff |-> None ]

\* mutant: the age is computed as lastUpdate - now
cleanupOldTasks_Reversed(ts, t) ==
    LET keep == { id \in DOMAIN ts :
                    ~ (ts[id].lastUpdate.isDate /\ ts[id].lastUpdate.ms - t > maxAge) }
    IN  [ id \in keep |-> ts[id] ]

\* cleanupOldTasks(tasks) at time t
cleanupOldTasks(ts, t) ==
    LET keep == { id \in DOMAIN ts : ~ OlderThanMaxAge(t, ts[id].lastUpdate) }
    IN  [ id \in keep |-> ts[id] ]

\* an inherited object before the store has written on it: it has none of
\* the properties the store reads or writes on a task
NoWrites ==
    [ lastUpdate |-> None, internalDeclaration |-> None, currentConfig |-> None,
      originalConfig |-> None, rebootRequired |-> None, requestOptions |-> None,
      rollbackInfo |-> None, traceCurrent |-> None, traceDesired |-> None,
      traceDiff |-> None ]
Untouched(ids) ==
    [ ids |-> ids,
      objects |-> [ i \in DOMAIN InheritedNames |-> NoWrites ],
      proto |-> None ]

\* the ids the callers pass: those uuidv4 hands out, and the inherited
\* names of this run
CallIds == TaskIds \cup inherited.ids
ConfigCallIds == ConfigIds \cup { NameOf(taskId) : taskId \in inherited.ids }

\* this.tasks[taskId] is truthy: the store holds a task under taskId, or
\* taskId is a name every object inherits
IsTask(taskId) == taskId \in DOMAIN tasks
Has(taskId) == IsTask(taskId) \/ taskId \in InheritedIds

\* the object found under an inherited name, as the properties written on it
Found(taskId) == inherited.objects[-taskId]
\* x[field] for a task or an inherited object x: the own property, or else
\* the property of that name written on Object.prototype
Lookup(x, field) ==
    IF Len(x[field]) = 0
    THEN ValueOf(inherited.objects[PrototypeAt][field])
    ELSE ValueOf(x[field])
\* the object found under an inherited name, as a value: its own
\* properties, which for a function include its name
ObjectOf(i) ==
    LET o == inherited.objects[i]
        own == { f \in DOMAIN o : Len(o[f]) > 0 }
    IN  [ f \in own \cup (IF InheritedNames[i] = ObjectPrototype THEN {} ELSE { "name" }) |->
            IF f = "name" THEN FunctionName(InheritedNames[i])
            ELSE IF IsSome(o[f]) THEN o[f][1] ELSE Undefined ]

\* mutant: the field is assigned on every task of the store
WithField_EveryTask(taskId, field, value) ==
    [ id \in DOMAIN tasks |-> [ tasks[id] EXCEPT ![field] = value ] ]

\* tasks with one field of one task replaced
WithField(taskId, field, value) ==
    [ tasks EXCEPT ![taskId] = [ @ EXCEPT ![field] = value ] ]
WithResult(taskId, field, value) ==
    [ tasks EXCEPT ![taskId].result = [ @ EXCEPT ![field] = value ] ]

CanCall == ops < MaxOps

\* the caller hands over an object (or undefined) that the store copies,
\* and one that the store keeps at a place
NoObject == [ value |-> None, places |-> {} ]
Copied(arg) == [ value |-> arg, places |-> {} ]
Kept(arg, place) == [ value |-> arg, places |-> IF IsSome(arg) THEN { place } ELSE {} ]

\* a call that throws: nothing is assigned
Throws(op, taskId, err) ==
    /\ last' = Call(op, taskId, err)
    /\ UNCHANGED storeVars
    /\ UNCHANGED inherited

\* this.tasks[taskId][field] = value for an inherited name: the property is
\* written on the object found, and the store is as it was
WritesInherited(op, taskId, field, value) ==
    /\ inherited' = [ inherited EXCEPT !.objects[-taskId][field] = value ]
    /\ last' = Call(op, taskId, NoError)
    /\ UNCHANGED storeVars

(***************************************************************************)
(* State: operations                                                       *)
(***************************************************************************)
StoreInit ==
    /\ tasks = [ id \in {} |-> NewTask(id, 0) ]
    /\ originalConfig = [ id \in {} |-> EmptyObj ]
    /\ mostRecentTask = None
    /\ now = 0
    /\ nextId = 0
    /\ ops = 0
    /\ last = NoCall
    /\ passed = NoObject

\* what new Date() may read: the wall clock, which the program does not
\* set and which may have been stepped forward or back since it was read
Times == { windows * maxAge + ms : windows \in 0 .. MaxSpan, ms \in 0 .. MaxSpan }

\* the wall clock changes
Tick ==
    \E later \in Times \ { now } :
        /\ now' = later
        /\ UNCHANGED << tasks, originalConfig, mostRecentTask, nextId, ops, last >>
        /\ UNCHANGED << authVars, existingState, planVars, passed, inherited >>

\* the clock is read twice, for the lastUpdate of the new task and then in
\* cleanupOldTasks, and the second reading is any reading of the clock: the
\* purge removes the task just added when it reads more than maxAge later
addTask ==
    /\ CanCall
    /\ nextId < MaxTasks
    /\ \E later \in Times :
        /\ LET taskId == nextId + 1
               added == [ id \in DOMAIN tasks \cup {taskId} |->
                            IF id = taskId THEN NewTask(taskId, now) ELSE tasks[id] ]
           IN  /\ tasks' = cleanupOldTasks(added, later)
               /\ mostRecentTask' = Some(taskId)
               /\ nextId' = taskId
               /\ last' = Call("addTask", taskId, NoError)
        /\ now' = later
    /\ ops' = ops + 1
    /\ UNCHANGED originalConfig
    /\ UNCHANGED << authVars, existingState, planVars, passed, inherited >>

\* mutant: the supplied errors are put in front of the recorded ones
UpdatedErrors_Prepend(old, errors) ==
    IF ~ (IsSome(errors) /\ (errors[1].isArray \/ errors[1].items # << "" >>))
    THEN old
    ELSE LET base == IF IsSome(old) THEN old[1] ELSE << >>
         IN  Some(errors[1].items \o base)

\* result.errors after updateResult's errors branch
UpdatedErrors(old, errors) ==
    IF ~ (IsSome(errors) /\ (errors[1].isArray \/ errors[1].items # << "" >>))
    THEN old
    ELSE LET base == IF IsSome(old) THEN old[1] ELSE << >>
         IN  Some(base \o errors[1].items)

\* one of the arguments of updateResult is truthy: on an inherited object,
\* which has no result, the first of them makes updateResult throw a
\* TypeError, after lastUpdate has been written
AnySupplied(args) ==
    \/ TruthyNum(args.code) \/ TruthyStr(args.status) \/ TruthyStr(args.message)
    \/ (IsSome(args.errors) /\ (args.errors[1].isArray \/ args.errors[1].items # << "" >>))

\* mutant: code, status and message are assigned whatever they are
updateResult_Overwrite ==
    /\ CanCall
    /\ \E taskId \in CallIds, arg \in ResultArgs, errors \in ErrorArgs :
        LET args == [ code |-> arg.code, status |-> arg.status,
                      message |-> arg.message, errors |-> errors ]
        IN  IF IsTask(taskId)
            THEN LET r == tasks[taskId].result
                     r2 == [ code |-> arg.code, status |-> arg.status,
                             message |-> arg.message,
                             errors |-> UpdatedErrors(r.errors, errors) ]
                 IN  /\ tasks' = [ tasks EXCEPT ![taskId] =
                                     [ @ EXCEPT !.lastUpdate = DateOf(now), !.result = r2 ] ]
                     /\ last' = [ Call("updateResult", taskId, NoError)
                                    EXCEPT !.args = args ]
                     /\ UNCHANGED << originalConfig, mostRecentTask, inherited >>
            ELSE IF Has(taskId)
            THEN /\ inherited' = [ inherited EXCEPT
                                     !.objects[-taskId].lastUpdate = Some(DateOf(now)) ]
                 /\ last' = [ Call("updateResult", taskId,
                                   IF AnySupplied(args) THEN TypeError ELSE NoError)
                                EXCEPT !.args = args ]
                 /\ UNCHANGED storeVars
            ELSE Throws("updateResult", taskId, NotFound)
    /\ ops' = ops + 1
    /\ UNCHANGED << now, nextId >>
    /\ UNCHANGED << authVars, existingState, planVars, passed >>

updateResult ==
    /\ CanCall
    /\ \E taskId \in CallIds, arg \in ResultArgs, errors \in ErrorArgs :
        LET code == arg.code
            status == arg.status
            message == arg.message
            args == [ code |-> code, status |-> status, message |-> message,
                      errors |-> errors ]
        IN  IF IsTask(taskId)
            THEN LET r == tasks[taskId].result
                     r2 == [ code |-> IF TruthyNum(code) THEN code ELSE r.code,
                             status |-> IF TruthyStr(status) THEN status ELSE r.status,
                             message |-> IF TruthyStr(message) THEN message
                                         ELSE r.message,
                             errors |-> UpdatedErrors(r.errors, errors) ]
                 IN  /\ tasks' = [ tasks EXCEPT ![taskId] =
                                     [ @ EXCEPT !.lastUpdate = DateOf(now), !.result = r2 ] ]
                     /\ last' = [ Call("updateResult", taskId, NoError)
                                    EXCEPT !.args = args ]
                     /\ UNCHANGED << originalConfig, mostRecentTask, inherited >>
            ELSE IF Has(taskId)
            THEN /\ inherited' = [ inherited EXCEPT
                                     !.objects[-taskId].lastUpdate = Some(DateOf(now)) ]
                 /\ last' = [ Call("updateResult", taskId,
                                   IF AnySupplied(args) THEN TypeError ELSE NoError)
                                EXCEPT !.args = args ]
                 /\ UNCHANGED storeVars
            ELSE Throws("updateResult", taskId, NotFound)
    /\ ops' = ops + 1
    /\ UNCHANGED << now, nextId >>
    /\ UNCHANGED << authVars, existingState, planVars, passed >>

\* the shape shared by the setters that assign one task field
SetField(op, taskId, field, value) ==
    /\ IF IsTask(taskId)
       THEN /\ tasks' = WithField(taskId, field, Assigned(value))
            /\ last' = Call(op, taskId, NoError)
            /\ UNCHANGED << originalConfig, mostRecentTask, inherited >>
       ELSE IF Has(taskId)
       THEN WritesInherited(op, taskId, field, Assigned(value))
       ELSE Throws(op, taskId, NotFound)
    /\ UNCHANGED passed

\* mutant: the argument itself is assigned
SetJsonField_ByReference(op, taskId, field, arg) ==
    IF Has(taskId)
    THEN IF IsSome(arg)
         THEN /\ IF IsTask(taskId)
                 THEN /\ tasks' = WithField(taskId, field, arg)
                      /\ last' = Call(op, taskId, NoError)
                      /\ UNCHANGED << originalConfig, mostRecentTask, inherited >>
                 ELSE WritesInherited(op, taskId, field, arg)
              /\ passed' = Kept(arg, << taskId, field >>)
         ELSE Throws(op, taskId, SyntaxError) /\ passed' = Copied(arg)
    ELSE Throws(op, taskId, NotFound) /\ passed' = Copied(arg)

\* the shape shared by the setters that assign JSON.parse(JSON.stringify(arg)):
\* JSON.parse(undefined) throws a SyntaxError before anything is assigned
SetJsonField(op, taskId, field, arg) ==
    /\ IF Has(taskId)
       THEN IF IsSome(arg)
            THEN IF IsTask(taskId)
                 THEN /\ tasks' = WithField(taskId, field, Some(JsonCopy(arg[1])))
                      /\ last' = Call(op, taskId, NoError)
                      /\ UNCHANGED << originalConfig, mostRecentTask, inherited >>
                 ELSE WritesInherited(op, taskId, field, Some(JsonCopy(arg[1])))
            ELSE Throws(op, taskId, SyntaxError)
       ELSE Throws(op, taskId, NotFound)
    /\ passed' = Copied(arg)

\* the shape shared by the setters that assign one field of result; an
\* inherited object has no result, and reading or writing a property of
\* undefined throws a TypeError
SetResultField(op, taskId, field, value) ==
    /\ IF IsTask(taskId)
       THEN /\ tasks' = WithResult(taskId, field, value)
            /\ last' = Call(op, taskId, NoError)
            /\ UNCHANGED << originalConfig, mostRecentTask, inherited >>
       ELSE IF Has(taskId)
       THEN Throws(op, taskId, TypeError)
       ELSE Throws(op, taskId, NotFound)
    /\ UNCHANGED passed

Called ==
    ops' = ops + 1 /\ UNCHANGED << now, nextId >> /\ UNCHANGED << authVars, existingState, planVars >>

setCurrentConfig ==
    /\ CanCall /\ Called
    /\ \E taskId \in CallIds, currentConfig \in CfgArgs :
        SetJsonField("setCurrentConfig", taskId, "currentConfig", currentConfig)

setCode ==
    /\ CanCall /\ Called
    /\ \E taskId \in CallIds, code \in CodeArgs :
        SetResultField("setCode", taskId, "code", code)

setMessage ==
    /\ CanCall /\ Called
    /\ \E taskId \in CallIds, message \in MessageArgs :
        SetResultField("setMessage", taskId, "message", message)

setStatus ==
    /\ CanCall /\ Called
    /\ \E taskId \in CallIds, status \in StatusArgs :
        SetResultField("setStatus", taskId, "status", status)

\* result.errors after setErrors(taskId, errors)
SetErrorsValue(old, errors) ==
    IF IsSome(errors) THEN errors
    ELSE IF IsSome(old) THEN Some(<< >>)
    ELSE old

setErrors ==
    /\ CanCall /\ Called
    /\ \E taskId \in CallIds, errors \in ErrorsArrayArgs :
        SetResultField("setErrors", taskId, "errors",
            IF IsTask(taskId) THEN SetErrorsValue(tasks[taskId].result.errors, errors)
            ELSE None)

\* doUtil.mask(declaration): the value of every secret-bearing property is
\* replaced by the redaction marker
mask(declaration) ==
    [ k \in DOMAIN declaration |->
        IF k \in SecretKeys THEN Redacted ELSE declaration[k] ]

\* mutant: the declaration is stored as passed
setDeclaration_Raw ==
    /\ CanCall /\ Called
    /\ \E taskId \in CallIds, declaration \in Declarations :
        IF IsTask(taskId)
        THEN /\ tasks' = WithField(taskId, "internalDeclaration", declaration)
             /\ last' = [ Call("setDeclaration", taskId, NoError)
                            EXCEPT !.decl = declaration ]
             /\ UNCHANGED << originalConfig, mostRecentTask, inherited >>
        ELSE IF Has(taskId)
        THEN /\ inherited' = [ inherited EXCEPT
                                 !.objects[-taskId].internalDeclaration = Some(declaration) ]
             /\ last' = [ Call("setDeclaration", taskId, NoError)
                            EXCEPT !.decl = declaration ]
             /\ UNCHANGED storeVars
        ELSE Throws("setDeclaration", taskId, NotFound)
    /\ UNCHANGED passed

setDeclaration ==
    /\ CanCall /\ Called
    /\ \E taskId \in CallIds, declaration \in Declarations :
        IF IsTask(taskId)
        THEN /\ tasks' = WithField(taskId, "internalDeclaration", mask(declaration))
             /\ last' = [ Call("setDeclaration", taskId, NoError)
                            EXCEPT !.decl = declaration ]
             /\ UNCHANGED << originalConfig, mostRecentTask, inherited >>
        ELSE IF Has(taskId)
        THEN /\ inherited' = [ inherited EXCEPT
                                 !.objects[-taskId].internalDeclaration =
                                     Some(mask(declaration)) ]
             /\ last' = [ Call("setDeclaration", taskId, NoError)
                            EXCEPT !.decl = declaration ]
             /\ UNCHANGED storeVars
        ELSE Throws("setDeclaration", taskId, NotFound)
    /\ UNCHANGED passed

setRebootRequired ==
    /\ CanCall /\ Called
    /\ \E taskId \in CallIds, rebootRequired \in BoolArgs :
        SetField("setRebootRequired", taskId, "rebootRequired", rebootRequired)

setRequestOptions ==
    /\ CanCall /\ Called
    /\ \E taskId \in CallIds, reqOpts \in CfgArgs :
        IF Has(taskId)
        THEN /\ IF IsTask(taskId)
                THEN /\ tasks' = WithField(taskId, "requestOptions", Assigned(reqOpts))
                     /\ last' = Call("setRequestOptions", taskId, NoError)
                     /\ UNCHANGED << originalConfig, mostRecentTask, inherited >>
                ELSE WritesInherited("setRequestOptions", taskId, "requestOptions",
                                     Assigned(reqOpts))
             /\ passed' = Kept(reqOpts, << taskId, "requestOptions" >>)
        ELSE /\ Throws("setRequestOptions", taskId, NotFound)
             /\ passed' = Copied(reqOpts)

setRollbackInfo ==
    /\ CanCall /\ Called
    /\ \E taskId \in CallIds, rollbackInfo \in CfgArgs :
        IF TruthyObj(rollbackInfo)
        THEN SetJsonField("setRollbackInfo", taskId, "rollbackInfo", rollbackInfo)
        ELSE /\ last' = Call("setRollbackInfo", taskId, NoError)
             /\ passed' = Copied(rollbackInfo)
             /\ UNCHANGED storeVars
             /\ UNCHANGED inherited

setTraceCurrent ==
    /\ CanCall /\ Called
    /\ \E taskId \in CallIds, currentConfig \in CfgArgs :
        SetJsonField("setTraceCurrent", taskId, "traceCurrent", currentConfig)

setTraceDesired ==
    /\ CanCall /\ Called
    /\ \E taskId \in CallIds, desiredConfig \in CfgArgs :
        SetJsonField("setTraceDesired", taskId, "traceDesired", desiredConfig)

setTraceDiff ==
    /\ CanCall /\ Called
    /\ \E taskId \in CallIds, diff \in CfgArgs :
        SetJsonField("setTraceDiff", taskId, "traceDiff", diff)

\* this.originalConfig[id] = copy: an entry under id, but for '__proto__',
\* where the assignment puts the copy in the place of the prototype of
\* this.originalConfig and makes no entry
setOriginalConfigByConfigId ==
    /\ CanCall /\ Called
    /\ \E id \in ConfigCallIds, config \in CfgVals :
        /\ IF id = ObjectPrototype
           THEN /\ inherited' = [ inherited EXCEPT !.proto = Some(JsonCopy(config)) ]
                /\ UNCHANGED originalConfig
           ELSE /\ originalConfig' = [ c \in DOMAIN originalConfig \cup {id} |->
                                         IF c = id THEN JsonCopy(config)
                                         ELSE originalConfig[c] ]
                /\ UNCHANGED inherited
        /\ last' = Call("setOriginalConfigByConfigId", 0, NoError)
        /\ passed' = Copied(Some(config))
        /\ UNCHANGED << tasks, mostRecentTask >>

\* mutant: every entry is deleted
deleteOriginalConfigByConfigId_All ==
    /\ CanCall /\ Called
    /\ \E id \in ConfigCallIds :
        /\ originalConfig' = [ c \in {} |-> EmptyObj ]
        /\ last' = Call("deleteOriginalConfigByConfigId", 0, NoError)
        /\ UNCHANGED << tasks, mostRecentTask, passed, inherited >>

\* delete this.originalConfig[id]: the entry under id, if there is one
deleteOriginalConfigByConfigId ==
    /\ CanCall /\ Called
    /\ \E id \in ConfigCallIds :
        /\ originalConfig' = [ c \in DOMAIN originalConfig \ {id} |-> originalConfig[c] ]
        /\ last' = Call("deleteOriginalConfigByConfigId", 0, NoError)
        /\ UNCHANGED << tasks, mostRecentTask, passed, inherited >>

\* what the caller's object holds once the caller has changed it
CfgChanged == [hostname |-> "bigip2"]

\* the caller changes the object it passed to the latest call: every place
\* of the store that holds that object shows the change
callerChanges ==
    /\ IsSome(passed.value)
    /\ passed.value[1] # CfgChanged
    /\ passed' = [ passed EXCEPT !.value = Some(CfgChanged) ]
    /\ tasks' = [ id \in DOMAIN tasks |->
                    [ f \in DOMAIN tasks[id] |->
                        IF << id, f >> \in passed.places THEN Some(CfgChanged)
                        ELSE tasks[id][f] ] ]
    /\ originalConfig' = [ c \in DOMAIN originalConfig |->
                             IF << 0, c >> \in passed.places THEN CfgChanged
                             ELSE originalConfig[c] ]
    /\ inherited' = [ inherited EXCEPT !.objects =
                        [ i \in DOMAIN @ |->
                            [ f \in DOMAIN @[i] |->
                                IF << -i, f >> \in passed.places
                                THEN Some(CfgChanged) ELSE @[i][f] ] ] ]
    /\ UNCHANGED << mostRecentTask, now, nextId, ops, last >>
    /\ UNCHANGED << authVars, existingState, planVars >>

(***************************************************************************)
(* State: the copy constructor.  The data object is a record of optional   *)
(* properties; a configuration (an originalConfig entry) is an object that *)
(* may hold a version string and, under Common, its classes: a nameless    *)
(* class is one object, a named class maps item names to objects.          *)
(***************************************************************************)
\* doUtil.getDoVersion(), as `${VERSION}-${RELEASE}`
doVersionStr == "1.22.0-1"
\* cloudUtil.versionCompare(a, b): negative, zero or positive, over the
\* versions that occur, oldest first
versionCompare(a, b) ==
    LET order == << "0.0.0-0", "1.21.0-3", "1.22.0-1", "1.23.0-2" >>
        rank(v) == CHOOSE i \in DOMAIN order : order[i] = v
    IN  IF rank(a) < rank(b) THEN -1
        ELSE IF rank(a) = rank(b) THEN 0 ELSE 1

\* ConfigManager.getNamelessClasses(configItems)
NAMELESS_CLASSES == { "System" }

\* obj[k], or undefined when obj has no property k
Prop(obj, k) == IF k \in DOMAIN obj THEN Some(obj[k]) ELSE None

\* parserUtil.updateIds(configItems, schemaClass, config, itemName): every
\* property keyed by its newId is re-keyed by its id
updateIds(config) ==
    LET idOf(key) == IF key = "newId" THEN "id" ELSE key
    IN  [ k \in { idOf(j) : j \in DOMAIN config } |->
            config[CHOOSE j \in DOMAIN config : idOf(j) = k] ]

\* the entry is older than the running version; its version is
\* configById.version || '0.0.0-0'
IsOlder(configById) ==
    LET configVersion == IF TruthyStr(Prop(configById, "version"))
                         THEN configById.version ELSE "0.0.0-0"
    IN  versionCompare(configVersion, doVersionStr) < 0
\* both tests of updateNewIdToId pass: the entry is older and has a Common
NeedsUpdate(configById) == IsOlder(configById) /\ "Common" \in DOMAIN configById

\* an entry after the body of the two tests: the version is stamped, the
\* whole object of a nameless class and each item of a named class are
\* passed through updateIds
UpdatedEntry(configById) ==
    LET updated(schemaClass, config) ==
            IF schemaClass \in NAMELESS_CLASSES
            THEN updateIds(config)
            ELSE [ itemName \in DOMAIN config |-> updateIds(config[itemName]) ]
    IN  [ k \in DOMAIN configById \cup { "version" } |->
            IF k = "version" THEN doVersionStr
            ELSE IF k = "Common"
                 THEN [ c \in DOMAIN configById.Common |->
                          updated(c, configById.Common[c]) ]
                 ELSE configById[k] ]

\* existingState.originalConfig after updateNewIdToId(existingState)
updateNewIdToId(oc) ==
    [ configId \in DOMAIN oc |->
        IF NeedsUpdate(oc[configId]) THEN UpdatedEntry(oc[configId]) ELSE oc[configId] ]

\* JSON.parse(JSON.stringify(x)) of an optional object and of a task
JsonOptional(o) == IF IsSome(o) THEN Some(JsonCopy(o[1])) ELSE None
JsonTask(task) ==
    [ task EXCEPT !.lastUpdate = JsonDate(@),
                  !.internalDeclaration = JsonCopy(@),
                  !.rebootRequired = ValueOf(@),
                  !.currentConfig = JsonOptional(@),
                  !.originalConfig = JsonOptional(@),
                  !.requestOptions = JsonOptional(@),
                  !.rollbackInfo = JsonOptional(@),
                  !.traceCurrent = JsonOptional(@),
                  !.traceDesired = JsonOptional(@),
                  !.traceDiff = JsonOptional(@) ]

\* a data object: the properties the constructor reads, and those of a
\* legacy blob
Data(ts, oc, recent, result, declaration, current) ==
    [ tasks |-> ts, originalConfig |-> oc, mostRecentTask |-> recent,
      result |-> result, internalDeclaration |-> declaration,
      currentConfig |-> current ]

\* mutant: the synthesized task is a fresh task
UpgradedTask_Fresh(es, taskId, t) == NewTask(taskId, t)

\* the task the legacy blob is wrapped into: its JSON copy, with lastUpdate
\* and id assigned
UpgradedTask(es, taskId, t) ==
    [ NewTask(taskId, t) EXCEPT
        !.result = es.result[1],
        !.internalDeclaration = JsonCopy(es.internalDeclaration[1]),
        !.currentConfig = JsonOptional(es.currentConfig),
        !.originalConfig = JsonOptional(es.originalConfig) ]

\* existingState when copyAndUpgradeState is about to return
Upgraded(es, taskId, t) ==
    LET wrapped == IF ~ TruthyObj(es.tasks)
                   THEN [ es EXCEPT
                            !.tasks = Some([ id \in { taskId } |->
                                               UpgradedTask(es, taskId, t) ]),
                            !.mostRecentTask = Some(taskId) ]
                   ELSE es
        oc == IF ~ TruthyObj(wrapped.originalConfig)
              THEN [ configId \in {} |-> EmptyObj ]
              ELSE wrapped.originalConfig[1]
    IN  [ wrapped EXCEPT !.originalConfig = Some(updateNewIdToId(oc)) ]

\* the value copyAndUpgradeState returns
copyAndUpgradeState(es, taskId, t) ==
    LET up == Upgraded(es, taskId, t)
    IN  [ originalConfig |-> [ configId \in DOMAIN up.originalConfig[1] |->
                                 JsonCopy(up.originalConfig[1][configId]) ],
          tasks |-> [ id \in DOMAIN up.tasks[1] |-> JsonTask(up.tasks[1][id]) ],
          mostRecentTask |-> up.mostRecentTask ]

\* mutant: the new State starts without tasks
constructor_NoTasks(es, taskId, t) ==
    [ copyAndUpgradeState(es, taskId, t) EXCEPT
        !.tasks = [ id \in {} |-> NewTask(id, 0) ], !.mostRecentTask = None ]

\* the fields of new State(existingState)
constructor(es, taskId, t) ==
    copyAndUpgradeState(es, taskId, t)

\* what a saved State reads back as: JSON.parse(JSON.stringify(state))
Saved ==
    Data(Some([ id \in DOMAIN tasks |-> JsonTask(tasks[id]) ]),
         Some([ configId \in DOMAIN originalConfig |->
                  JsonCopy(originalConfig[configId]) ]),
         mostRecentTask, None, None, None)

\* new State(es): uuidv4 is called when the data has no tasks container,
\* and never returns an id the data holds; every field of the new State is
\* a JSON copy, so that no place of it holds an object a caller passed,
\* and the prototype of its originalConfig is Object.prototype (the
\* inherited objects, which are not part of the State, keep what was
\* written on them)
Constructed(op, es) ==
    LET wraps == ~ TruthyObj(es.tasks)
        taskId == nextId + 1
        state == constructor(es, taskId, now)
        MaxId(d) == IF TruthyObj(d.tasks) /\ DOMAIN d.tasks[1] # {}
                    THEN CHOOSE m \in DOMAIN d.tasks[1] :
                             \A id \in DOMAIN d.tasks[1] : id <= m
                    ELSE 0
    IN  /\ wraps => nextId < MaxTasks
        /\ originalConfig' = state.originalConfig
        /\ tasks' = state.tasks
        /\ mostRecentTask' = state.mostRecentTask
        /\ existingState' = Some(Upgraded(es, taskId, now))
        /\ nextId' = IF wraps THEN taskId
                     ELSE IF MaxId(es) > nextId THEN MaxId(es) ELSE nextId
        /\ last' = Call(op, 0, NoError)
        /\ ops' = ops + 1
        /\ passed' = [ passed EXCEPT !.places = { pl \in @ : pl[1] \in InheritedIds } ]
        /\ inherited' = [ inherited EXCEPT !.proto = None ]
        /\ UNCHANGED now
        /\ UNCHANGED << authVars, planVars >>

\* new State(existingState), with the data object in hand
construct ==
    /\ CanCall
    /\ IsSome(existingState)
    /\ Constructed("construct", existingState[1])

\* the State is saved, read back and re-created from what was read
reload ==
    /\ CanCall
    /\ Constructed("reload", Saved)

\* the data a previous run or release left behind: two legacy blobs (result
\* and internalDeclaration are always there), then data with a tasks
\* container and no original config or one, which is older, unversioned,
\* current, newer, or older and without Common
StoredData ==
    LET classes == [ System |-> [ newId |-> "v" ],
                     VLAN |-> [ v1 |-> [ newId |-> "v" ], v2 |-> [ newId |-> "v" ] ] ]
        resultOk == [ code |-> Some(200), status |-> Some("OK"),
                      message |-> Some("success"), errors |-> None ]
        resultError == [ code |-> Some(422), status |-> Some("ERROR"),
                         message |-> Some("invalid config"),
                         errors |-> Some(<< "e1" >>) ]
        task == [ JsonTask(NewTask(1, 0)) EXCEPT
                    !.result = resultError, !.internalDeclaration = DeclA ]
        legacy(result, current, oc) ==
            Data(None, oc, None, Some(result), Some(DeclA), current)
        current(oc) == Data(Some([ id \in { 1 } |-> task ]), oc, Some(1), None, None, None)
    IN  << legacy(resultOk, None, None),
           legacy(resultError, Some(CfgA), Some([ Common |-> classes ])),
           current(None),
           current(Some([ m1 |-> [ version |-> "1.21.0-3", Common |-> classes ] ])),
           current(Some([ m1 |-> [ Common |-> classes ] ])),
           current(Some([ m1 |-> [ version |-> "1.22.0-1", Common |-> classes ] ])),
           current(Some([ m1 |-> [ version |-> "1.23.0-2", Common |-> classes ] ])),
           current(Some([ m1 |-> [ version |-> "1.21.0-3", hostname |-> "bigip1" ] ])) >>

(***************************************************************************)
(* State: the read operations, as the outcome of a call in the current     *)
(* state: the error thrown (NoError when the call returns) and the value   *)
(* returned (<<>> when it returns undefined)                               *)
(***************************************************************************)
Returned(v) == [threw |-> NoError, value |-> v]
Thrown(err) == [threw |-> err, value |-> None]

\* the shape shared by the getters that read one task field
GetField(taskId, field) ==
    IF IsTask(taskId) THEN Returned(Lookup(tasks[taskId], field))
    ELSE IF Has(taskId) THEN Returned(Lookup(Found(taskId), field))
    ELSE Thrown(NotFound)
\* an inherited object has no result: reading a property of undefined
\* throws a TypeError
GetResultField(taskId, field) ==
    IF IsTask(taskId) THEN Returned(tasks[taskId].result[field])
    ELSE IF Has(taskId) THEN Thrown(TypeError)
    ELSE Thrown(NotFound)

\* this.tasks[taskId], without a test: the task, the inherited object, or
\* undefined
getTask(taskId) ==
    Returned(IF IsTask(taskId) THEN Some(tasks[taskId])
             ELSE IF Has(taskId) THEN Some(ObjectOf(-taskId))
             ELSE None)
getTaskIds == DOMAIN tasks
getCurrentConfig(taskId) == GetField(taskId, "currentConfig")
\* this.originalConfig[id] if it is truthy, else null.  The lookup finds
\* the entry under id (an object), or else what this.originalConfig
\* inherits: under '__proto__' its prototype, then a property of the object
\* put in the place of its prototype, then the function of that name, then
\* a property written on Object.prototype.
getOriginalConfigByConfigId(id) ==
    LET names == { i \in DOMAIN InheritedNames : InheritedNames[i] = id }
        top == inherited.objects[PrototypeAt]
    IN  IF id \in DOMAIN originalConfig THEN Some(originalConfig[id])
        ELSE IF id = ObjectPrototype
        THEN IF IsSome(inherited.proto) THEN inherited.proto
             ELSE Some(ObjectOf(PrototypeAt))
        ELSE IF IsSome(inherited.proto) /\ id \in DOMAIN inherited.proto[1]
        THEN IF id \in nested \/ inherited.proto[1][id] # ""
             THEN Some(inherited.proto[1][id]) ELSE None
        ELSE IF names # {} THEN Some(ObjectOf(CHOOSE i \in names : TRUE))
        ELSE IF id \in DOMAIN top /\ IsSome(top[id])
                  /\ (id = "rebootRequired" => top[id][1] = TRUE)
        THEN top[id] ELSE None
getOriginalConfigByTaskId(taskId) == GetField(taskId, "originalConfig")
getOriginalConfigIds == DOMAIN originalConfig
getCode(taskId) == GetResultField(taskId, "code")
getMessage(taskId) == GetResultField(taskId, "message")
getStatus(taskId) == GetResultField(taskId, "status")
getErrors(taskId) == GetResultField(taskId, "errors")
getRebootRequired(taskId) == GetField(taskId, "rebootRequired")
getRequestOptions(taskId) == GetField(taskId, "requestOptions")
getRollbackInfo(taskId) == GetField(taskId, "rollbackInfo")
getTraceCurrent(taskId) == GetField(taskId, "traceCurrent")
getTraceDesired(taskId) == GetField(taskId, "traceDesired")
getTraceDiff(taskId) == GetField(taskId, "traceDiff")
\* a || b || c: the first truthy operand, else the last; an operand that
\* throws ends the evaluation
hasTrace(taskId) ==
    LET a == getTraceCurrent(taskId)
        b == getTraceDesired(taskId)
        c == getTraceDiff(taskId)
    IN  IF a.threw # NoError \/ TruthyObj(a.value) THEN a
        ELSE IF b.threw # NoError \/ TruthyObj(b.value) THEN b
        ELSE c
getDeclaration(taskId) ==
    IF IsTask(taskId) THEN Returned(Some(tasks[taskId].internalDeclaration))
    ELSE IF Has(taskId) THEN Returned(Lookup(Found(taskId), "internalDeclaration"))
    ELSE Thrown(NotFound)
getLastUpdate(taskId) ==
    IF IsTask(taskId) THEN Returned(Some(tasks[taskId].lastUpdate))
    ELSE IF Has(taskId) THEN Returned(Lookup(Found(taskId), "lastUpdate"))
    ELSE Thrown(NotFound)

(***************************************************************************)
(* State: properties                                                       *)
(***************************************************************************)
\* the write operations keyed by task id
TaskWriters ==
    { "setCurrentConfig", "setCode", "setMessage", "setStatus", "setErrors",
      "setDeclaration", "setRebootRequired", "setRequestOptions",
      "setRollbackInfo", "setTraceCurrent", "setTraceDesired", "setTraceDiff",
      "updateResult" }

\* a step that is a call of addTask
IsAddTask == nextId' = nextId + 1

\* C1: every addTask call removes every task already in the store whose
\* lastUpdate lies more than 7 days before the current time, so that its id
\* is absent from getTaskIds() and getTask() when addTask returns.  The
\* current time is the one the purge reads, which is the clock when addTask
\* returns.
C1_Retention ==
    [][ IsAddTask =>
          \A id \in DOMAIN tasks :
              now' - tasks[id].lastUpdate.ms > maxAge
                  => /\ id \notin getTaskIds'
                     /\ getTask(id)' = Returned(None) ]_stateVars

\* an addTask has just purged a task that had been refreshed or created
\* more than 7 days before
C1_Witness ==
    /\ last.op = "addTask"
    /\ \E id \in 1 .. nextId : id # last.id /\ id \notin DOMAIN tasks
    /\ last.id \in DOMAIN tasks
    /\ now > maxAge

NoRawSecret(obj) == \A k \in DOMAIN obj : obj[k] \notin RawSecrets

\* C2: the declaration stored for a task is the masked form of the last
\* declaration passed to setDeclaration for it, and no stored declaration
\* holds the raw value of a secret-bearing property.
C2_Masking ==
    /\ \A id \in DOMAIN tasks : NoRawSecret(getDeclaration(id).value[1])
    /\ (last.op = "setDeclaration" /\ last.threw = NoError)
         => /\ getDeclaration(last.id).value = Some(mask(last.decl))
            /\ getTask(last.id).value[1].internalDeclaration = mask(last.decl)

\* a declaration with secrets was set on a task that already held a
\* declaration
C2_Witness ==
    /\ last.op = "setDeclaration"
    /\ last.threw = NoError
    /\ \E k \in DOMAIN last.decl : last.decl[k] \in RawSecrets
    /\ ops >= 3

\* C3 (as claimed): every write operation keyed by task id, called with an
\* id that is not in the store (one that was never handed out, one whose
\* task was purged, or a name every object inherits), throws 'taskId does
\* not exist' whatever its other arguments are, and leaves tasks,
\* originalConfig and mostRecentTask unchanged.
C3_WritersFailOnUnknownId ==
    [][ (ops' = ops + 1 /\ last'.op \in TaskWriters /\ last'.id \notin DOMAIN tasks)
          => (last'.threw = NotFound /\ UNCHANGED storeVars) ]_stateVars

\* the outcomes of every read operation keyed by task id
ReadOutcomes(taskId) ==
    { getTask(taskId), getCurrentConfig(taskId), getOriginalConfigByTaskId(taskId),
      getCode(taskId), getMessage(taskId), getStatus(taskId), getErrors(taskId),
      getDeclaration(taskId), getRebootRequired(taskId), getRequestOptions(taskId),
      getRollbackInfo(taskId), getTraceCurrent(taskId), getTraceDesired(taskId),
      getTraceDiff(taskId), hasTrace(taskId), getLastUpdate(taskId) }

\* C4 (as claimed): every read operation keyed by task id, called with an id
\* that is not in the store, throws the not-found error; none returns a
\* value.
C4_ReadersFailOnUnknownId ==
    \A taskId \in TaskIds \ DOMAIN tasks :
        \A r \in ReadOutcomes(taskId) : r.threw = NotFound

\* C10 (as claimed): every operation that changes a task's result status or
\* result code stamps that task's lastUpdate with the current time.
C10_TransitionStampsLastUpdate ==
    [][ \A id \in DOMAIN tasks \cap DOMAIN tasks' :
          (tasks'[id].result.status # tasks[id].result.status
             \/ tasks'[id].result.code # tasks[id].result.code)
          => tasks'[id].lastUpdate = DateOf(now') ]_stateVars

\* the errors recorded in a result
Recorded(errors) ==
    IF IsSome(errors) THEN { errors[1][i] : i \in DOMAIN errors[1] } ELSE {}

\* C11 (as claimed): once an error is recorded in a task's result.errors, no
\* later operation on that task removes it or replaces the list by one that
\* lacks it, for as long as the task exists.
C11_ErrorsAccumulate ==
    [][ \A id \in DOMAIN tasks \cap DOMAIN tasks' :
          Recorded(tasks[id].result.errors) \subseteq Recorded(tasks'[id].result.errors)
      ]_stateVars

\* the statuses of the task state machine
TerminalStatuses == { "SUCCEEDED", "FAILED", "ROLLED_BACK" }
LifecycleEdges ==
    { << "CREATED", "VALIDATING" >>, << "VALIDATING", "APPLYING" >>,
      << "APPLYING", "SUCCEEDED" >>, << "APPLYING", "ROLLING_BACK" >>,
      << "ROLLING_BACK", "ROLLED_BACK" >>, << "ROLLING_BACK", "FAILED" >> }

\* C12 (as claimed): a task whose status is terminal and whose result code
\* is not the OK code has a non-empty result.errors list.
C12_TerminalFailureHasErrors ==
    \A id \in DOMAIN tasks :
        (/\ IsSome(getStatus(id).value)
         /\ getStatus(id).value[1] \in TerminalStatuses
         /\ getCode(id).value # Some(200))
            => Recorded(getErrors(id).value) # {}

\* C13 (as claimed): a task created by addTask starts in CREATED, its status
\* only moves along the edges of the task state machine, and a terminal
\* status never changes.
C13_StatusFollowsLifecycle ==
    [][ \A id \in DOMAIN tasks' :
          IF id \notin DOMAIN tasks
          THEN tasks'[id].result.status = Some("CREATED")
          ELSE \/ tasks'[id].result.status = tasks[id].result.status
               \/ /\ IsSome(tasks[id].result.status)
                  /\ IsSome(tasks'[id].result.status)
                  /\ << tasks[id].result.status[1], tasks'[id].result.status[1] >>
                        \in LifecycleEdges
      ]_stateVars

\* C14 (as claimed): a task enters ROLLING_BACK only from APPLYING and only
\* if rollback info has been recorded for it.
C14_RollbackNeedsSnapshot ==
    [][ \A id \in DOMAIN tasks \cap DOMAIN tasks' :
          (/\ tasks'[id].result.status = Some("ROLLING_BACK")
           /\ tasks[id].result.status # Some("ROLLING_BACK"))
            => /\ tasks[id].result.status = Some("APPLYING")
               /\ TruthyObj(getRollbackInfo(id).value)
      ]_stateVars

\* C19 (as claimed): no operation other than the retention purge inside
\* addTask removes a task, and the purge never removes a task whose
\* lastUpdate is at most 7 days before the current time, nor the task just
\* added: such a task stays returned by getTask and listed by getTaskIds.
C19_OnlyExpiryRemoves ==
    [][ /\ \A id \in DOMAIN tasks :
              /\ id \notin getTaskIds' => IsAddTask
              /\ now' - tasks[id].lastUpdate.ms <= maxAge
                    => /\ id \in getTaskIds'
                       /\ getTask(id)'.value # None
        /\ IsAddTask => \A id \in TaskIds :
                            id = nextId' => /\ id \in getTaskIds'
                                            /\ getTask(id)'.value # None
      ]_stateVars

\* C26: an operation keyed by a task id changes no field of any other task,
\* neither adds nor removes another task, and changes no originalConfig
\* entry nor mostRecentTask; addTask changes no field of a task it keeps and
\* no originalConfig entry (it may remove expired tasks and it sets
\* mostRecentTask).
C26_TasksDoNotInterfere ==
    [][ /\ (ops' = ops + 1 /\ last'.op \in TaskWriters) =>
              /\ \A b \in TaskIds \ { last'.id } :
                     /\ b \in getTaskIds' <=> b \in getTaskIds
                     /\ getTask(b)' = getTask(b)
              /\ originalConfig' = originalConfig
              /\ mostRecentTask' = mostRecentTask
        /\ IsAddTask =>
              /\ \A b \in getTaskIds' :
                     b = nextId' \/ (b \in getTaskIds /\ getTask(b)' = getTask(b))
              /\ originalConfig' = originalConfig
      ]_stateVars

\* a result was recorded for one of two tasks, and the other task is as it
\* was created
C26_Witness ==
    /\ last.op = "updateResult"
    /\ last.threw = NoError
    /\ tasks[last.id].result # EmptyResult
    /\ \E b \in DOMAIN tasks : b # last.id /\ tasks[b].result = EmptyResult

\* a step that is a call of new State(data), and the data it is called with
IsConstruction == ops' = ops + 1 /\ last'.op \in { "construct", "reload" }
IsReload == ops' = ops + 1 /\ last'.op = "reload"
NoConfigs == [ configId \in {} |-> EmptyObj ]
ConfigsOf(es) == IF IsSome(es.originalConfig) THEN es.originalConfig[1] ELSE NoConfigs

\* two task records that differ at most in the form of lastUpdate
SameTask(a, b) ==
    /\ [ a EXCEPT !.lastUpdate = b.lastUpdate ] = b
    /\ a.lastUpdate.ms = b.lastUpdate.ms

\* C15: data without a tasks container yields a store with exactly one task,
\* whose id is mostRecentTask and which holds every field of the legacy blob
\* with its legacy value; data with a tasks container keeps its tasks and
\* its mostRecentTask.
C15_LegacyUpgrade ==
    [][ IsConstruction =>
          LET es == IF last'.op = "reload" THEN Saved ELSE existingState[1]
          IN  IF es.tasks = None
              THEN /\ Cardinality(DOMAIN tasks') = 1
                   /\ IsSome(mostRecentTask')
                   /\ DOMAIN tasks' = { mostRecentTask'[1] }
                   /\ \A id \in DOMAIN tasks' :
                          /\ tasks'[id].id = id
                          /\ tasks'[id].result = es.result[1]
                          /\ tasks'[id].internalDeclaration = es.internalDeclaration[1]
                          /\ tasks'[id].currentConfig = es.currentConfig
                          /\ tasks'[id].originalConfig = es.originalConfig
              ELSE /\ DOMAIN tasks' = DOMAIN es.tasks[1]
                   /\ \A id \in DOMAIN tasks' : SameTask(tasks'[id], es.tasks[1][id])
                   /\ mostRecentTask' = es.mostRecentTask
      ]_vars

\* a legacy blob with a failing result, a current and an original config
\* was wrapped into the one task of the store
C15_Witness ==
    /\ last.op = "construct"
    /\ IsSome(existingState)
    /\ existingState[1].result = StoredData[2].result
    /\ Cardinality(DOMAIN tasks) = 1
    /\ \A id \in DOMAIN tasks :
           /\ mostRecentTask = Some(id)
           /\ Some(tasks[id].result) = StoredData[2].result
           /\ IsSome(tasks[id].result.errors)
           /\ tasks[id].currentConfig = Some(CfgA)
           /\ tasks[id].originalConfig = StoredData[2].originalConfig

\* C16 (as claimed): after construction from persisted data, every
\* originalConfig entry whose version was older than the running version
\* (no version counts as older) carries the current version, and every
\* class under its Common has passed through identifier migration: the
\* whole object of a nameless class, each item of a named class.
C16_OlderEntriesMigrated ==
    [][ IsConstruction =>
          LET es == IF last'.op = "reload" THEN Saved ELSE existingState[1]
              oc == ConfigsOf(es)
          IN  \A configId \in DOMAIN oc :
                  IsOlder(oc[configId]) =>
                      /\ configId \in DOMAIN originalConfig'
                      /\ Prop(originalConfig'[configId], "version") = Some(doVersionStr)
                      /\ "Common" \in DOMAIN oc[configId] =>
                            \A c \in DOMAIN oc[configId].Common :
                                LET old == oc[configId].Common[c]
                                    new == originalConfig'[configId].Common[c]
                                IN  IF c \in NAMELESS_CLASSES
                                    THEN new = updateIds(old)
                                    ELSE /\ DOMAIN new = DOMAIN old
                                         /\ \A item \in DOMAIN old :
                                                new[item] = updateIds(old[item])
      ]_vars

\* C17 (as claimed): constructing a State from the data of a State that
\* was constructed under the running version invokes identifier migration
\* on no entry and yields an equal originalConfig; no construction modifies
\* or re-stamps an entry whose version is equal to or newer than the
\* running version.
C17_MigrationOnce ==
    [][ IsConstruction =>
          LET es == IF last'.op = "reload" THEN Saved ELSE existingState[1]
              oc == ConfigsOf(es)
          IN  /\ \A configId \in DOMAIN oc :
                     ~ IsOlder(oc[configId]) =>
                         /\ configId \in DOMAIN originalConfig'
                         /\ originalConfig'[configId] = oc[configId]
              /\ IsReload =>
                     /\ \A configId \in DOMAIN oc :
                            ~ (IsOlder(oc[configId]) /\ "Common" \in DOMAIN oc[configId])
                     /\ originalConfig' = originalConfig
      ]_vars

\* C18: re-creating the State from its persisted data leaves every task
\* retrievable under its id, with its id and its result (code, status,
\* message, errors) as last recorded.
C18_ReloadKeepsResults ==
    [][ IsReload =>
          \A id \in DOMAIN tasks :
              /\ id \in getTaskIds'
              /\ getTask(id)'.value # None
              /\ getTask(id)'.value[1].id = id
              /\ getTask(id)'.value[1].result = tasks[id].result
              /\ getCode(id)' = getCode(id)
              /\ getStatus(id)' = getStatus(id)
              /\ getMessage(id)' = getMessage(id)
              /\ getErrors(id)' = getErrors(id)
      ]_vars

\* a task with a failing result and two recorded errors went through a
\* reload
C18_Witness ==
    /\ last.op = "reload"
    /\ \E id \in DOMAIN tasks :
           /\ ~ tasks[id].lastUpdate.isDate
           /\ tasks[id].result.status = Some("ERROR")
           /\ IsSome(tasks[id].result.errors)
           /\ Len(tasks[id].result.errors[1]) >= 2

\* C27 (as claimed): a task that entered the store through the copy
\* constructor and whose lastUpdate lies more than 7 days before the current
\* time is removed by the next addTask.
C27_RestoredTasksExpire ==
    [][ (ops' = ops + 1 /\ last'.op = "addTask") =>
          \A id \in DOMAIN tasks :
              (~ tasks[id].lastUpdate.isDate /\ now' - tasks[id].lastUpdate.ms > maxAge)
                  => id \notin getTaskIds' ]_stateVars

\* a step that is a call of updateResult on a task of the store
IsUpdateResult ==
    /\ ops' = ops + 1
    /\ last'.op = "updateResult"
    /\ last'.threw = NoError
    /\ last'.id \in DOMAIN tasks

\* C32: for an existing task, updateResult replaces result.code,
\* result.status and result.message only for the arguments that are supplied
\* (non-empty) and leaves the others at their previous value, leaves
\* result.errors unchanged when no errors are supplied, and changes no other
\* field of the task except lastUpdate.
C32_UpdateResultFrame ==
    [][ IsUpdateResult =>
          LET a == last'.args
              old == tasks[last'.id]
              new == tasks'[last'.id]
          IN  /\ new.result.code =
                     IF TruthyNum(a.code) THEN a.code ELSE old.result.code
              /\ new.result.status =
                     IF TruthyStr(a.status) THEN a.status ELSE old.result.status
              /\ new.result.message =
                     IF TruthyStr(a.message) THEN a.message ELSE old.result.message
              /\ ~ IsSome(a.errors) => new.result.errors = old.result.errors
              /\ new.lastUpdate = DateOf(now')
              /\ [ new EXCEPT !.lastUpdate = old.lastUpdate, !.result = old.result ] = old
      ]_stateVars

\* updateResult was given a code only, for a task that has a status
C32_Witness ==
    /\ last.op = "updateResult"
    /\ last.threw = NoError
    /\ last.args.code = Some(422)
    /\ last.args.status = None
    /\ last.args.errors = None
    /\ tasks[last.id].result.code = Some(422)
    /\ IsSome(tasks[last.id].result.status)

\* the errors a task records, as a list
ErrorList(o) == IF IsSome(o) THEN o[1] ELSE << >>

\* C33: updateResult appends the errors it is given, in order, to
\* result.errors (a string is one element, an array contributes its
\* elements in order), and no other operation than setErrors changes
\* result.errors: after any sequence of updateResult calls result.errors is
\* the concatenation, in call order, of the errors supplied.
C33_ErrorsAppendInOrder ==
    [][ /\ IsUpdateResult =>
              LET a == last'.args.errors
                  supplied == IF IsSome(a) THEN a[1].items ELSE << >>
              IN  ErrorList(tasks'[last'.id].result.errors) =
                      ErrorList(tasks[last'.id].result.errors) \o supplied
        /\ (ops' = ops + 1 /\ last'.op \in TaskWriters \ { "updateResult", "setErrors" }) =>
              \A id \in DOMAIN tasks \cap DOMAIN tasks' :
                  tasks'[id].result.errors = tasks[id].result.errors
      ]_stateVars

\* a string and then an array of two errors were recorded for a task
C33_Witness ==
    /\ last.op = "updateResult"
    /\ last.threw = NoError
    /\ last.args.errors = Some(ErrArr(<< "e2", "e1" >>))
    /\ tasks[last.id].result.errors = Some(<< "e1", "e2", "e1" >>)

\* C34 (as claimed): mostRecentTask is null only while the store holds no
\* task; it changes only in addTask and in the copy constructor; after addTask it is
\* the id addTask returned, after the copy constructor it is the id of the
\* synthesized task or the mostRecentTask of the data; and it is always a
\* key of tasks whose record has that id.
C34_MostRecentTask ==
    /\ [](/\ mostRecentTask = None => DOMAIN tasks = {}
          /\ IsSome(mostRecentTask) =>
                /\ mostRecentTask[1] \in DOMAIN tasks
                /\ tasks[mostRecentTask[1]].id = mostRecentTask[1])
    /\ [][ /\ mostRecentTask' # mostRecentTask =>
                  (ops' = ops + 1 /\ last'.op \in { "addTask", "construct", "reload" })
           /\ (ops' = ops + 1 /\ last'.op = "addTask") =>
                  /\ mostRecentTask' = Some(last'.id)
                  /\ last'.id \notin DOMAIN tasks
                  /\ last'.id \in DOMAIN tasks'
                  /\ tasks'[last'.id].id = last'.id
           /\ IsConstruction =>
                  LET es == IF last'.op = "reload" THEN Saved ELSE existingState[1]
                  IN  mostRecentTask' = IF TruthyObj(es.tasks) THEN es.mostRecentTask
                                        ELSE Some(nextId')
         ]_vars

\* C36 (as claimed): new State(existingState) leaves existingState as it
\* was before the call.
C36_ConstructorKeepsArgument ==
    [][ (ops' = ops + 1 /\ last'.op = "construct") =>
            existingState' = existingState ]_vars

\* C39: no task operation (addTask with its purge, updateResult, a task
\* setter) changes originalConfig; setOriginalConfigByConfigId stores one
\* entry and deleteOriginalConfigByConfigId removes one, each leaving every
\* other entry as it was, so that an entry stays retrievable and listed
\* until it is deleted; getOriginalConfigByConfigId returns null for an id
\* without entry and the entry otherwise.
C39_OriginalConfigIndependent ==
    /\ [](\A id \in ConfigIds :
            IF id \in getOriginalConfigIds
            THEN getOriginalConfigByConfigId(id) = Some(originalConfig[id])
            ELSE getOriginalConfigByConfigId(id) = None)
    /\ [][ LET others(id) ==
                   \A c \in ConfigIds \ { id } :
                       getOriginalConfigByConfigId(c)' = getOriginalConfigByConfigId(c)
           IN  /\ (ops' = ops + 1 /\ last'.op \in TaskWriters \cup { "addTask" }) =>
                      originalConfig' = originalConfig
               /\ (ops' = ops + 1 /\ last'.op = "setOriginalConfigByConfigId") =>
                      \E id \in ConfigIds :
                          /\ IsSome(getOriginalConfigByConfigId(id)')
                          /\ id \in getOriginalConfigIds'
                          /\ others(id)
               /\ (ops' = ops + 1 /\ last'.op = "deleteOriginalConfigByConfigId") =>
                      \E id \in ConfigIds :
                          /\ getOriginalConfigByConfigId(id)' = None
                          /\ others(id)
               /\ originalConfig' # originalConfig =>
                      /\ ops' = ops + 1
                      /\ last'.op \in { "setOriginalConfigByConfigId",
                                        "deleteOriginalConfigByConfigId" }
         ]_stateVars

\* addTask has just purged the first task, and the entry stored for m1 is
\* still there
C39_Witness ==
    /\ last.op = "addTask"
    /\ last.id = 2
    /\ 1 \notin getTaskIds
    /\ getOriginalConfigByConfigId("m1") = Some(JsonCopy(CfgU))
    /\ getOriginalConfigIds = { "m1" }

\* the setters of a task's configurations, with the field each assigns
SnapshotField(op) ==
    CASE op = "setCurrentConfig" -> "currentConfig"
      [] op = "setRollbackInfo" -> "rollbackInfo"
      [] op = "setTraceCurrent" -> "traceCurrent"
      [] op = "setTraceDesired" -> "traceDesired"
      [] OTHER -> "traceDiff"
SnapshotSetters ==
    { "setCurrentConfig", "setRollbackInfo", "setTraceCurrent", "setTraceDesired",
      "setTraceDiff" }

\* a step in which a setter has stored the configuration it was passed
StoresSnapshot ==
    /\ ops' = ops + 1
    /\ last'.op \in SnapshotSetters \cup { "setOriginalConfigByConfigId" }
    /\ last'.threw = NoError
    /\ IsSome(passed'.value)

\* what the six getters return, for every task and every config id
Snapshots ==
    << [ id \in TaskIds |->
           << getCurrentConfig(id), getRollbackInfo(id), getTraceCurrent(id),
              getTraceDesired(id), getTraceDiff(id) >> ],
       [ c \in ConfigIds |-> getOriginalConfigByConfigId(c) ] >>

\* a step in which the caller changes the object it passed
CallerChanges == passed'.value # passed.value /\ ops' = ops

\* C35 (as claimed): after a setter has stored a configuration the matching
\* getter returns a value structurally equal to the one passed in, and a
\* later change made by the caller to the object it passed does not change
\* what the store returns.
C35_SnapshotEqualsArgument ==
    [][ /\ StoresSnapshot =>
              IF last'.op = "setOriginalConfigByConfigId"
              THEN \E c \in ConfigIds : getOriginalConfigByConfigId(c)' = passed'.value
              ELSE \E id \in TaskIds, op \in SnapshotSetters :
                       /\ id = last'.id /\ op = last'.op
                       /\ GetField(id, SnapshotField(op))' = Returned(passed'.value)
        /\ CallerChanges => Snapshots' = Snapshots
      ]_vars

\* copy has, at every depth, the properties of arg that are not undefined,
\* each with the value it has in arg, and no other property
RECURSIVE DefinedPart(_, _)
DefinedPart(copy, arg) ==
    /\ DOMAIN copy = { k \in DOMAIN arg : k \in nested \/ arg[k] # Undefined }
    /\ \A k \in DOMAIN copy :
           IF k \in nested THEN DefinedPart(copy[k], arg[k]) ELSE copy[k] = arg[k]

\* C35 (amended): after a setter has stored a configuration the matching
\* getter returns its JSON copy, which has, at every depth, the properties
\* of the value passed in that are not undefined, each with the value passed
\* in, and no other property; a later change made by the caller to the
\* object it passed does not change what the store returns.
C35_SnapshotByValue ==
    [][ /\ StoresSnapshot =>
              \E copy \in { JsonCopy(passed'.value[1]) } :
                  /\ IF last'.op = "setOriginalConfigByConfigId"
                     THEN \E c \in ConfigIds :
                              getOriginalConfigByConfigId(c)' = Some(copy)
                     ELSE \E id \in TaskIds, op \in SnapshotSetters :
                              /\ id = last'.id /\ op = last'.op
                              /\ GetField(id, SnapshotField(op))' = Returned(Some(copy))
                  /\ DefinedPart(copy, passed'.value[1])
        /\ CallerChanges => Snapshots' = Snapshots
      ]_vars

\* the caller has changed the object it passed to setCurrentConfig, and the
\* store returns the configuration as it was passed
C35_Witness ==
    /\ last.op = "setCurrentConfig"
    /\ last.threw = NoError
    /\ passed.value = Some(CfgChanged)
    /\ getCurrentConfig(last.id) =
           Returned(Some([hostname |-> "bigip1", Common |-> EmptyObj]))

StateNext ==
    \/ Tick
    \/ addTask
    \/ updateResult
    \/ setCurrentConfig
    \/ setCode
    \/ setMessage
    \/ setStatus
    \/ setErrors
    \/ setDeclaration
    \/ setRebootRequired
    \/ setRequestOptions
    \/ setRollbackInfo
    \/ setTraceCurrent
    \/ setTraceDesired
    \/ setTraceDiff
    \/ setOriginalConfigByConfigId
    \/ deleteOriginalConfigByConfigId

SnapshotNext ==
    \/ addTask
    \/ setCurrentConfig
    \/ setRequestOptions
    \/ setRollbackInfo
    \/ setTraceCurrent
    \/ setTraceDesired
    \/ setTraceDiff
    \/ setOriginalConfigByConfigId
    \/ callerChanges

LoadNext ==
    \/ Tick
    \/ addTask
    \/ updateResult
    \/ setOriginalConfigByConfigId
    \/ construct
    \/ reload

(***************************************************************************)
(* Reconciliation.  A DeviceConfig maps a class to its resources, name ->  *)
(* properties; a declaration has the same shape, with optional properties  *)
(* left out and references written with or without their partition.  The   *)
(* device is the DeviceConfig the appliance holds; a remote operation      *)
(* succeeds, and then has its effect, or fails, and then has none.         *)
(***************************************************************************)
\* ConfigItem: the default of each optional property of a class
classDefaults ==
    [ VLAN |-> [ mtu |-> 1500 ], RouteDomain |-> [ strict |-> TRUE ] ]

\* mutant: route domains are handled before VLANs
precedence_Reversed == << "RouteDomain", "VLAN" >>

\* the class precedence table: VLANs before RouteDomains
precedence == << "VLAN", "RouteDomain" >>

\* mutant: a missing optional property is left out of the DeviceConfig
toDeviceConfig_NoDefaults(declaration) ==
    LET qualify(ref) == IF ref = "myVlan" THEN "/Common/myVlan" ELSE ref
        translated(c, item) ==
            [ k \in DOMAIN item |->
                IF k = "vlans" THEN [ i \in DOMAIN item[k] |-> qualify(item[k][i]) ]
                ELSE item[k] ]
    IN  [ c \in DOMAIN declaration |->
            [ n \in DOMAIN declaration[c] |-> translated(c, declaration[c][n]) ] ]

\* ConfigTranslator.toDeviceConfig: a missing optional property receives the
\* class default, a reference is written with its partition
toDeviceConfig(declaration) ==
    LET qualify(ref) == IF ref = "myVlan" THEN "/Common/myVlan" ELSE ref
        translated(c, item) ==
            [ k \in DOMAIN item \cup DOMAIN classDefaults[c] |->
                IF k \notin DOMAIN item THEN classDefaults[c][k]
                ELSE IF k = "vlans" THEN [ i \in DOMAIN item[k] |-> qualify(item[k][i]) ]
                ELSE item[k] ]
    IN  [ c \in DOMAIN declaration |->
            [ n \in DOMAIN declaration[c] |-> translated(c, declaration[c][n]) ] ]

\* the declaration the inspect endpoint gives for a DeviceConfig: every
\* resource under its class and name, with the values the device holds
inspect(config) ==
    [ c \in DOMAIN config |-> [ n \in DOMAIN config[c] |-> config[c][n] ] ]

\* DiffPlanner.plan: for each class in precedence order and each name in
\* declaration order, a create for a name only in desired, a modify carrying
\* the changed properties for a name in both whose properties differ, a
\* delete for a name only in current that is no protected default object
plan(desired, current) ==
    LET names == [ VLAN |-> << "myVlan" >>, RouteDomain |-> << "0", "myRouteDomain" >> ]
        protected == { << "RouteDomain", "0" >> }
        Operation(c, n, kind, payload) ==
            [ class |-> c, name |-> n, kind |-> kind, payload |-> payload ]
        changed(d, cur) ==
            [ k \in { x \in DOMAIN d : x \notin DOMAIN cur \/ d[x] # cur[x] } |-> d[k] ]
        opFor(c, n) ==
            IF n \in DOMAIN desired[c]
            THEN IF n \notin DOMAIN current[c]
                 THEN Operation(c, n, "create", desired[c][n])
                 ELSE IF desired[c][n] # current[c][n]
                 THEN Operation(c, n, "modify", changed(desired[c][n], current[c][n]))
                 ELSE Operation(c, n, "none", EmptyObj)
            ELSE IF n \in DOMAIN current[c] /\ << c, n >> \notin protected
                 THEN Operation(c, n, "delete", EmptyObj)
                 ELSE Operation(c, n, "none", EmptyObj)
        ofClass(c) == [ i \in DOMAIN names[c] |-> opFor(c, names[c][i]) ]
        planned(op) == op.kind # "none"
    IN  SelectSeq(ofClass(precedence[1]) \o ofClass(precedence[2]), planned)

\* mutant: a modify replaces the resource by the payload
applyOperation_Replace(config, op) ==
    LET items == config[op.class]
        stored == IF op.kind = "create"
                  THEN [ k \in DOMAIN op.payload \cup DOMAIN classDefaults[op.class] |->
                           IF k \in DOMAIN op.payload THEN op.payload[k]
                           ELSE classDefaults[op.class][k] ]
                  ELSE op.payload
    IN  [ config EXCEPT ![op.class] =
            IF op.kind = "delete"
            THEN [ n \in DOMAIN items \ { op.name } |-> items[n] ]
            ELSE [ n \in DOMAIN items \cup { op.name } |->
                     IF n = op.name THEN stored ELSE items[n] ] ]

\* the effect of an operation that succeeds: a create stores the payload,
\* the device filling in the defaults; a modify overwrites the properties of
\* the payload and keeps the others; a delete removes the resource
applyOperation(config, op) ==
    LET items == config[op.class]
        stored == IF op.kind = "create"
                  THEN [ k \in DOMAIN op.payload \cup DOMAIN classDefaults[op.class] |->
                           IF k \in DOMAIN op.payload THEN op.payload[k]
                           ELSE classDefaults[op.class][k] ]
                  ELSE [ k \in DOMAIN items[op.name] \cup DOMAIN op.payload |->
                           IF k \in DOMAIN op.payload THEN op.payload[k]
                           ELSE items[op.name][k] ]
    IN  [ config EXCEPT ![op.class] =
            IF op.kind = "delete"
            THEN [ n \in DOMAIN items \ { op.name } |-> items[n] ]
            ELSE [ n \in DOMAIN items \cup { op.name } |->
                     IF n = op.name THEN stored ELSE items[n] ] ]

\* declarations: no resource; a VLAN and a RouteDomain that references it,
\* optional properties left out; the same two with other values and the
\* reference written with its partition
NoItems == [ n \in {} |-> EmptyObj ]
DeclNone == [ VLAN |-> NoItems, RouteDomain |-> NoItems ]
DeclRouteDomain ==
    [ VLAN |-> [ myVlan |-> [ tag |-> 4093 ] ],
      RouteDomain |-> [ myRouteDomain |-> [ id |-> 1, vlans |-> << "myVlan" >> ] ] ]
DeclRouteDomainLoose ==
    [ VLAN |-> [ myVlan |-> [ tag |-> 4093, mtu |-> 9000 ] ],
      RouteDomain |-> [ myRouteDomain |->
                          [ id |-> 1, strict |-> FALSE, vlans |-> << "/Common/myVlan" >> ] ] ]
DeviceDeclarations == { DeclNone, DeclRouteDomain, DeclRouteDomainLoose }

\* devices: as shipped, with the default route domain only; and with a VLAN
\* configured by hand
DeviceShipped ==
    [ VLAN |-> NoItems,
      RouteDomain |-> [ n \in { "0" } |-> [ id |-> 0, strict |-> TRUE, vlans |-> << >> ] ] ]
Devices ==
    { DeviceShipped,
      [ DeviceShipped EXCEPT !.VLAN = [ myVlan |-> [ tag |-> 4094, mtu |-> 1500 ] ] ] }

\* no declaration has been submitted
CoordinatorIdle(d) ==
    /\ device = d
    /\ job = [ phase |-> "IDLE", declaration |-> DeclNone, snapshot |-> d,
               plan |-> << >>, mutated |-> FALSE, code |-> 0 ]
    /\ runs = 0

\* a declaration is submitted: the coordinator reads the device, keeps what
\* it read as the snapshot and plans; an empty plan ends the task at once
submit ==
    /\ job.phase \in { "IDLE", "SUCCEEDED", "ROLLED_BACK", "FAILED" }
    /\ runs < MaxRuns
    /\ \E declaration \in DeviceDeclarations \cup { inspect(device) } :
         LET operations == plan(toDeviceConfig(declaration), device)
         IN  job' = [ phase |-> IF operations = << >> THEN "SUCCEEDED" ELSE "APPLYING",
                      declaration |-> declaration,
                      snapshot |-> device,
                      plan |-> operations,
                      mutated |-> FALSE,
                      code |-> IF operations = << >> THEN 200 ELSE 202 ]
    /\ runs' = runs + 1
    /\ UNCHANGED << device, stateVars, authVars, existingState, passed, inherited >>

\* the next operation of the plan, or of the reverse plan, succeeds
OperationSucceeds ==
    /\ job.phase \in { "APPLYING", "ROLLING_BACK" }
    /\ job.plan # << >>
    /\ device' = applyOperation(device, Head(job.plan))
    /\ LET rest == Tail(job.plan)
       IN  job' = [ job EXCEPT
                      !.plan = rest,
                      !.mutated = TRUE,
                      !.phase = IF rest # << >> THEN @
                                ELSE IF @ = "APPLYING" THEN "SUCCEEDED" ELSE "ROLLED_BACK",
                      !.code = IF rest # << >> THEN @
                               ELSE IF job.phase = "APPLYING" THEN 200 ELSE 422 ]
    /\ UNCHANGED << runs, stateVars, authVars, existingState, passed, inherited >>

\* the next operation fails.  While applying, after at least one successful
\* mutation, RollbackManager re-plans from the device as it is now to the
\* snapshot and the reverse plan is applied; otherwise the task has failed.
\* A failure of the reverse plan is final.
OperationFails ==
    /\ job.phase \in { "APPLYING", "ROLLING_BACK" }
    /\ job.plan # << >>
    /\ job' = IF job.phase = "APPLYING" /\ job.mutated
              THEN LET reverse == plan(job.snapshot, device)
                   IN  [ job EXCEPT
                           !.plan = reverse,
                           !.phase = IF reverse = << >> THEN "ROLLED_BACK"
                                     ELSE "ROLLING_BACK",
                           !.code = IF reverse = << >> THEN 422 ELSE @ ]
              ELSE [ job EXCEPT !.plan = << >>, !.phase = "FAILED", !.code = 422 ]
    /\ UNCHANGED << device, runs, stateVars, authVars, existingState, passed, inherited >>

PlanNext ==
    \/ submit
    \/ OperationSucceeds
    \/ OperationFails

(***************************************************************************)
(* Reconciliation: properties                                              *)
(***************************************************************************)
\* the name of the VLAN a reference stands for
vlanOf(ref) == IF ref = "/Common/myVlan" THEN "myVlan" ELSE ref

\* the VLANs a route domain of a DeviceConfig references
ReferencedVlans(config, r) ==
    IF "vlans" \in DOMAIN config.RouteDomain[r]
    THEN { vlanOf(config.RouteDomain[r].vlans[i]) :
             i \in DOMAIN config.RouteDomain[r].vlans }
    ELSE {}

\* the places of the creates and modifies of a resource in a plan
Upserts(p, c, n) ==
    { i \in DOMAIN p : p[i].class = c /\ p[i].name = n /\ p[i].kind \in { "create", "modify" } }

\* C22: in the plan of a declaration whose RouteDomain references a VLAN of
\* the same declaration, against any device, the VLAN's create or modify
\* comes strictly before the RouteDomain's; when the RouteDomain's operation
\* is applied the VLAN is on the device; and after a successful run the
\* RouteDomain is on the device and references /Common/<vlan>.
C22_VlanBeforeRouteDomain ==
    /\ \A d \in DeviceDeclarations :
           LET desired == toDeviceConfig(d)
               p == plan(desired, device)
           IN  \A r \in DOMAIN desired.RouteDomain :
                   \A v \in ReferencedVlans(desired, r) \cap DOMAIN desired.VLAN :
                       \A i \in Upserts(p, "RouteDomain", r), j \in Upserts(p, "VLAN", v) :
                           j < i
    /\ LET desired == toDeviceConfig(job.declaration)
       IN  \A r \in DOMAIN desired.RouteDomain :
               \A v \in ReferencedVlans(desired, r) \cap DOMAIN desired.VLAN :
                   /\ (job.phase = "APPLYING" /\ 1 \in Upserts(job.plan, "RouteDomain", r))
                         => v \in DOMAIN device.VLAN
                   /\ job.phase = "SUCCEEDED"
                         => /\ r \in DOMAIN device.RouteDomain
                            /\ v \in DOMAIN device.VLAN
                            /\ device.RouteDomain[r].vlans = << "/Common/myVlan" >>

\* a VLAN and a RouteDomain referencing it by its bare name were both
\* created by a run that succeeded
C22_Witness ==
    /\ job.phase = "SUCCEEDED"
    /\ job.declaration = DeclRouteDomain
    /\ job.snapshot = DeviceShipped
    /\ "myRouteDomain" \in DOMAIN device.RouteDomain

\* C23 (as claimed): after a first declaration created a VLAN and a
\* RouteDomain referencing it, a second declaration that omits both ends
\* with code 200 and both absent when its operations succeed, and at no
\* point of that run is a VLAN absent that a RouteDomain of the device
\* references.
C23_RemovalKeepsReferences ==
    (/\ job.declaration = DeclNone
     /\ "myVlan" \in DOMAIN job.snapshot.VLAN
     /\ "myRouteDomain" \in DOMAIN job.snapshot.RouteDomain
     /\ "myVlan" \in ReferencedVlans(job.snapshot, "myRouteDomain")) =>
        /\ job.phase = "SUCCEEDED" =>
               /\ job.code = 200
               /\ "myVlan" \notin DOMAIN device.VLAN
               /\ "myRouteDomain" \notin DOMAIN device.RouteDomain
        /\ job.phase \in { "APPLYING", "SUCCEEDED" } =>
               \A r \in DOMAIN device.RouteDomain :
                   ReferencedVlans(device, r) \subseteq DOMAIN device.VLAN

\* C24: when a task has been rolled back (its apply phase failed after at
\* least one successful mutation and every operation of the reverse plan
\* succeeded), the device configuration equals the snapshot taken before the
\* apply phase began, and the task's code is not the success code.
C24_RollbackRestoresSnapshot ==
    job.phase = "ROLLED_BACK" =>
        /\ device = job.snapshot
        /\ job.mutated
        /\ job.code # 200

\* a run against a device that held the VLAN and the RouteDomain was rolled
\* back by operations of the reverse plan
C24_Witness ==
    /\ job.phase = "ROLLED_BACK"
    /\ "myVlan" \in DOMAIN job.snapshot.VLAN
    /\ "myRouteDomain" \in DOMAIN job.snapshot.RouteDomain
    /\ job.declaration = DeclRouteDomainLoose

\* C25: once a declaration has been applied with success its plan against
\* the device is empty; submitting it again then ends at once, with no
\* operation and the device unchanged; and submitting the declaration
\* obtained by inspecting the device ends at once, the device inspecting to
\* the same declaration afterwards.
C25_Idempotence ==
    /\ [] ( job.phase = "SUCCEEDED" =>
                plan(toDeviceConfig(job.declaration), device) = << >> )
    /\ [][ (runs' = runs + 1 /\ job.phase = "SUCCEEDED"
                /\ job'.declaration = job.declaration)
              => /\ job'.plan = << >>
                 /\ job'.phase = "SUCCEEDED"
                 /\ device' = device ]_vars
    /\ [][ (runs' = runs + 1 /\ job'.declaration = inspect(device))
              => /\ job'.plan = << >>
                 /\ job'.phase = "SUCCEEDED"
                 /\ inspect(device') = job'.declaration ]_vars

\* a declaration that leaves optional properties out was applied with
\* success and then submitted again
C25_Witness ==
    /\ runs >= 2
    /\ job.phase = "SUCCEEDED"
    /\ job.declaration = DeclRouteDomain
    /\ job.snapshot = device
    /\ ~ job.mutated
    /\ "myRouteDomain" \in DOMAIN device.RouteDomain

(***************************************************************************)
(* AuthHandler: declarations                                               *)
(***************************************************************************)
\* names taken from sharedConstants
PRIMARY_SERVER == "RADIUS.PRIMARY_SERVER"
SECONDARY_SERVER == "RADIUS.SECONDARY_SERVER"
SUBCLASSES_NAME == "AUTH.SUBCLASSES_NAME"

\* the LDAP properties that may hold an inline (base64) certificate or key,
\* in the order handleLdap looks at them
CertOrder == << "sslCaCert", "sslClientCert", "sslClientKey" >>
CertNames == { CertOrder[i] : i \in 1 .. Len(CertOrder) }
CertFile(c) ==
    CASE c = "sslCaCert" -> "do_ldapCaCert.crt"
      [] c = "sslClientCert" -> "do_ldapClientCert.crt"
      [] OTHER -> "do_ldapClientCert.key"
CertPath(c) == IF c = "sslClientKey" THEN "SSLKey" ELSE "SSLCert"
\* path.endsWith('.key')
EndsWithKey(file) == file \in { "do_ldapClientCert.key" }

TacacsDefault ==
    [ accounting |-> None, authentication |-> None, debug |-> None,
      encryption |-> None, protocol |-> None ]
TacacsCustom ==
    [ accounting |-> Some("send-to-all-servers"),
      authentication |-> Some("use-all-servers"), debug |-> Some(TRUE),
      encryption |-> Some(FALSE), protocol |-> Some("ip") ]
TacacsDecls == { None, Some(TacacsDefault), Some(TacacsCustom) }

LdapDecls ==
    { None } \cup
    { Some([ inline |-> S ]) : S \in { T \in SUBSET CertNames : Cardinality(T) <= MaxCerts } }

\* radius: absent, declared without a primary server, with a primary only,
\* with a primary and a secondary
RadiusDecls == { "none", "noPrimary", "primary", "both" }

NoAuthDecl(n) ==
    [ hasAuth |-> FALSE, roles |-> n, radius |-> "none", tacacs |-> None,
      ldap |-> None, enabledSourceType |-> "local", remoteUsersDefaults |-> FALSE ]

AuthDecls ==
    { NoAuthDecl(n) : n \in 0 .. MaxRoles } \cup
    [ hasAuth : { TRUE }, roles : 0 .. MaxRoles, radius : RadiusDecls,
      tacacs : TacacsDecls, ldap : LdapDecls,
      enabledSourceType : { "radius", "activeDirectory" },
      remoteUsersDefaults : BOOLEAN ]

(***************************************************************************)
(* AuthHandler: remote calls                                               *)
(***************************************************************************)
NoProps == [ k \in {} |-> "" ]

RemoteCall(step, part, op, path, name) ==
    [ step |-> step, part |-> part, op |-> op, path |-> path, name |-> name,
      idx |-> 0, cert |-> "", silent |-> FALSE, secret |-> FALSE,
      servers |-> << >>, props |-> NoProps, status |-> "pending" ]

\* the machine: the promise chain's position, the calls issued, the
\* certificate chains
Issue(m, call) == [ m EXCEPT !.calls = Append(@, call) ]
Resolve(m) == [ m EXCEPT !.pc = "resolved" ]
Reject(m) == [ m EXCEPT !.pc = "rejected" ]

CallsOf(cs, part) == { i \in DOMAIN cs : cs[i].part = part }
AllOk(cs, part) == \A i \in CallsOf(cs, part) : cs[i].status = "ok"

(***************************************************************************)
(* AuthHandler: the steps, last first.  handleX(m) is the synchronous part *)
(* of handleX: the calls it issues before it returns its promise.          *)
(***************************************************************************)
handleRemoteUsersDefaults(m) ==
    IF ~ decl.remoteUsersDefaults
    THEN Resolve(m)
    ELSE Issue([ m EXCEPT !.pc = "defaults" ],
               RemoteCall("defaults", "defaults", "modify", "AuthRemoteUser", ""))

SourceType(t) == IF t = "activeDirectory" THEN "active-directory" ELSE t

handleSource(m) ==
    Issue([ m EXCEPT !.pc = "source" ],
          [ RemoteCall("source", "source", "modify", "AuthSource", "")
              EXCEPT !.props = [ type |-> SourceType(decl.enabledSourceType) ] ])

\* handleCert's three calls
uploadCert(c) ==
    [ RemoteCall("ldap", "upload", "create", "Uploads", CertFile(c))
        EXCEPT !.cert = c, !.silent = EndsWithKey(CertFile(c)),
               !.secret = (c = "sslClientKey") ]
createCert(c) ==
    [ RemoteCall("ldap", "install", "createOrModify", CertPath(c), CertFile(c))
        EXCEPT !.cert = c ]
deleteCert(c) ==
    [ RemoteCall("ldap", "remove", "create", "UnixRm", CertFile(c))
        EXCEPT !.cert = c ]

InlineCerts == IF IsSome(decl.ldap) THEN decl.ldap[1].inline ELSE {}

\* mutant: the LDAP object is upserted when one certificate chain is done
certPromisesResolved_Any(m) ==
    InlineCerts = {} \/ \E c \in InlineCerts : m.certPc[c] = "done"

\* Promise.all(certPromises) is resolved
certPromisesResolved(m) ==
    \A c \in InlineCerts : m.certPc[c] = "done"

\* options = ldapObj.bindPw ? { silent: true } : {}, where bindPw is
\* ldap.bindPassword || 'none', hence truthy
upsertLdap(m) ==
    Issue([ m EXCEPT !.pc = "ldapObject" ],
          [ RemoteCall("ldap", "ldap", "createOrModify", "AuthLdap", SUBCLASSES_NAME)
              EXCEPT !.silent = TRUE, !.secret = TRUE ])

StartCerts(m, certs) ==
    [ m EXCEPT !.calls = @ \o [ i \in 1 .. Len(certs) |-> uploadCert(certs[i]) ],
               !.certPc = [ c \in CertNames |->
                              IF c \in InlineCerts THEN "upload" ELSE @[c] ] ]

IsInline(c) == c \in InlineCerts

handleLdap(m) ==
    IF ~ IsSome(decl.ldap)
    THEN handleSource(m)
    ELSE LET started == StartCerts([ m EXCEPT !.pc = "ldapCerts" ],
                                   SelectSeq(CertOrder, IsInline))
         IN  IF certPromisesResolved(started) THEN upsertLdap(started) ELSE started

\* mutant: encryption is enabled only when it is declared true
TacacsProps_EncryptionOptIn(t) ==
    LET base == [ accounting |-> IF TruthyStr(t.accounting) THEN t.accounting[1]
                                 ELSE "send-to-first-server",
                  authentication |-> IF TruthyStr(t.authentication) THEN t.authentication[1]
                                     ELSE "use-first-server",
                  debug |-> IF t.debug = Some(TRUE) THEN "enabled" ELSE "disabled",
                  encryption |-> IF t.encryption = Some(TRUE) THEN "enabled"
                                 ELSE "disabled" ]
    IN  IF TruthyStr(t.protocol)
        THEN [ k \in DOMAIN base \cup { "protocol" } |->
                 IF k = "protocol" THEN t.protocol[1] ELSE base[k] ]
        ELSE base

\* tacacsObj, reduced to the properties that have a default
TacacsProps(t) ==
    LET base == [ accounting |-> IF TruthyStr(t.accounting) THEN t.accounting[1]
                                 ELSE "send-to-first-server",
                  authentication |-> IF TruthyStr(t.authentication) THEN t.authentication[1]
                                     ELSE "use-first-server",
                  debug |-> IF t.debug = Some(TRUE) THEN "enabled" ELSE "disabled",
                  encryption |-> IF t.encryption = Some(FALSE) THEN "disabled"
                                 ELSE "enabled" ]
    IN  IF TruthyStr(t.protocol)
        THEN [ k \in DOMAIN base \cup { "protocol" } |->
                 IF k = "protocol" THEN t.protocol[1] ELSE base[k] ]
        ELSE base

handleTacacs(m) ==
    IF ~ IsSome(decl.tacacs)
    THEN handleLdap(m)
    ELSE Issue([ m EXCEPT !.pc = "tacacs" ],
               [ RemoteCall("tacacs", "tacacs", "createOrModify", "AuthTacacs",
                            SUBCLASSES_NAME)
                   EXCEPT !.secret = TRUE, !.props = TacacsProps(decl.tacacs[1]) ])

radiusServer(name) ==
    [ RemoteCall("radius", "radiusServer", "createOrModify", "AuthRadiusServer", name)
        EXCEPT !.secret = TRUE ]

\* authServers: the primary, and the secondary when it is declared
authServers ==
    IF decl.radius = "both" THEN << PRIMARY_SERVER, SECONDARY_SERVER >>
    ELSE << PRIMARY_SERVER >>

\* mutant: the aggregate object is upserted as soon as one server upsert is done
serverPromsResolved_Any(cs) ==
    \E i \in CallsOf(cs, "radiusServer") : cs[i].status = "ok"

\* Promise.all(serverProms) is resolved
serverPromsResolved(cs) == AllOk(cs, "radiusServer")

upsertRadius(m) ==
    Issue([ m EXCEPT !.pc = "radiusAggregate" ],
          [ RemoteCall("radius", "radiusAggregate", "createOrModify", "AuthRadius",
                       SUBCLASSES_NAME)
              EXCEPT !.servers = authServers, !.silent = TRUE ])

\* mutant: the secondary server is deleted whether or not one is declared
keepsSecondary_Never == FALSE

\* radius.servers.secondary is truthy
keepsSecondary == decl.radius = "both"

deleteSecondary(m) ==
    Issue([ m EXCEPT !.pc = "radiusDelete" ],
          RemoteCall("radius", "radiusDelete", "delete", "AuthRadiusServer",
                     SECONDARY_SERVER))

\* mutant: the server upserts are issued whatever radius holds
handleRadius_Always(m) ==
    [ m EXCEPT !.pc = "radiusServers",
               !.calls = @ \o [ i \in 1 .. Len(authServers) |->
                                  radiusServer(authServers[i]) ] ]

handleRadius(m) ==
    IF decl.radius \in { "none", "noPrimary" }
    THEN handleTacacs(m)
    ELSE [ m EXCEPT !.pc = "radiusServers",
                    !.calls = @ \o [ i \in 1 .. Len(authServers) |->
                                       radiusServer(authServers[i]) ] ]

remoteRole(n) ==
    [ RemoteCall("roles", "role", "createOrModify", "AuthRemoteRole", "role")
        EXCEPT !.idx = n ]

\* the promise returned by handleRemoteAuthRoles is what process() returns
\* when no Authentication is declared
AfterRoles(m) == IF decl.hasAuth THEN handleRadius(m) ELSE Resolve(m)

\* mutant: the entries are upserted one after the other, the first one first
handleRemoteAuthRoles_OneAtATime(m) ==
    IF decl.roles = 0
    THEN AfterRoles(m)
    ELSE Issue([ m EXCEPT !.pc = "roles" ], remoteRole(1))

\* mutant: the next step is started without waiting for the upserts
handleRemoteAuthRoles_NoWait(m) ==
    AfterRoles([ m EXCEPT !.calls = @ \o [ i \in 1 .. decl.roles |-> remoteRole(i) ] ])

handleRemoteAuthRoles(m) ==
    IF decl.roles = 0
    THEN AfterRoles(m)
    ELSE [ m EXCEPT !.pc = "roles",
                    !.calls = @ \o [ i \in 1 .. decl.roles |-> remoteRole(i) ] ]

(***************************************************************************)
(* AuthHandler: what runs when a remote call settles (the then and catch   *)
(* handlers, run to the next remote call)                                  *)
(***************************************************************************)
\* mutant: the chain goes on whether or not the call succeeded
SettleCert_Regardless(m, c, part, ok) ==
    CASE part = "upload" ->
            Issue([ m EXCEPT !.certPc[c] = "install" ], createCert(c))
      [] part = "install" ->
            Issue([ m EXCEPT !.certPc[c] = "remove" ], deleteCert(c))
      [] OTHER ->
            LET done == [ m EXCEPT !.certPc[c] = "done" ]
            IN  IF done.pc = "ldapCerts" /\ certPromisesResolved(done)
                THEN upsertLdap(done)
                ELSE done

\* a step of handleCert's chain; the chain runs on after Promise.all has
\* rejected
SettleCert(m, c, part, ok) ==
    LET failed == [ m EXCEPT !.certPc[c] = "failed" ]
    IN  IF ~ ok
        THEN IF m.pc = "ldapCerts" THEN Reject(failed) ELSE failed
        ELSE CASE part = "upload" ->
                    Issue([ m EXCEPT !.certPc[c] = "install" ], createCert(c))
               [] part = "install" ->
                    Issue([ m EXCEPT !.certPc[c] = "remove" ], deleteCert(c))
               [] OTHER ->
                    LET done == [ m EXCEPT !.certPc[c] = "done" ]
                    IN  IF done.pc = "ldapCerts" /\ certPromisesResolved(done)
                        THEN upsertLdap(done)
                        ELSE done

\* handleTacacs's catch logs the error and returns nothing: the promise is
\* resolved either way
SettleTacacs(m, ok) == handleLdap(m)

Settle(m, i, ok) ==
    LET c == m.calls[i]
        m1 == [ m EXCEPT !.calls[i].status = IF ok THEN "ok" ELSE "failed" ]
    IN  CASE c.part \in { "upload", "install", "remove" } ->
                SettleCert(m1, c.cert, c.part, ok)
          [] c.part = "role" /\ m.pc = "roles" ->
                IF ~ ok THEN Reject(m1)
                ELSE IF AllOk(m1.calls, "role") THEN AfterRoles(m1) ELSE m1
          [] c.part = "radiusServer" /\ m.pc = "radiusServers" ->
                IF ~ ok THEN Reject(m1)
                ELSE IF serverPromsResolved(m1.calls) THEN upsertRadius(m1) ELSE m1
          [] c.part = "radiusAggregate" /\ m.pc = "radiusAggregate" ->
                IF ~ ok THEN Reject(m1)
                ELSE IF keepsSecondary THEN handleTacacs(m1) ELSE deleteSecondary(m1)
          [] c.part = "radiusDelete" /\ m.pc = "radiusDelete" ->
                IF ~ ok THEN Reject(m1) ELSE handleTacacs(m1)
          [] c.part = "tacacs" /\ m.pc = "tacacs" -> SettleTacacs(m1, ok)
          [] c.part = "ldap" /\ m.pc = "ldapObject" ->
                IF ~ ok THEN Reject(m1) ELSE handleSource(m1)
          [] c.part = "source" /\ m.pc = "source" ->
                IF ~ ok THEN Reject(m1) ELSE handleRemoteUsersDefaults(m1)
          [] c.part = "defaults" /\ m.pc = "defaults" ->
                IF ~ ok THEN Reject(m1) ELSE Resolve(m1)
          [] OTHER -> m1

Machine == [ pc |-> pc, calls |-> calls, certPc |-> certPc ]

Becomes(m) ==
    /\ pc' = m.pc
    /\ calls' = m.calls
    /\ certPc' = m.certPc
    /\ UNCHANGED << decl, tasks, originalConfig, mostRecentTask, now, nextId, ops, last >>
    /\ UNCHANGED << existingState, planVars, passed, inherited >>

(***************************************************************************)
(* AuthHandler: actions                                                    *)
(***************************************************************************)
\* no handler is running
HandlerIdle(d) ==
    /\ decl = d
    /\ calls = << >>
    /\ pc = "init"
    /\ certPc = [ c \in CertNames |-> "idle" ]

\* new State(), and no handler
StateInit ==
    /\ StoreInit
    /\ inherited = Untouched({})
    /\ HandlerIdle(NoAuthDecl(0))
    /\ existingState = None
    /\ CoordinatorIdle(DeviceShipped)

\* the inherited names passed by the callers that take their ids from
\* outside: those that find Object, toString and Object.prototype (what
\* holds of toString holds of hasOwnProperty)
OutsideIds == { i \in InheritedIds : NameOf(i) # "hasOwnProperty" }

\* new State(), no handler, and callers that take their ids from outside
OutsideInit ==
    /\ StoreInit
    /\ inherited = Untouched(OutsideIds)
    /\ HandlerIdle(NoAuthDecl(0))
    /\ existingState = None
    /\ CoordinatorIdle(DeviceShipped)

\* new State(), no handler, and the data read from persistence in hand
LoadInit ==
    /\ StoreInit
    /\ inherited = Untouched({})
    /\ HandlerIdle(NoAuthDecl(0))
    /\ \E i \in DOMAIN StoredData : existingState = Some(StoredData[i])
    /\ CoordinatorIdle(DeviceShipped)

\* new AuthHandler(declaration, bigIp, eventEmitter, state), with an empty store
AuthInit ==
    /\ StoreInit
    /\ inherited = Untouched({})
    /\ existingState = None
    /\ CoordinatorIdle(DeviceShipped)
    /\ \E d \in AuthDecls : HandlerIdle(d)

\* new AuthHandler(...) for a declaration that has at most the RADIUS part,
\* the source and the defaults of Authentication
RadiusInit ==
    /\ StoreInit
    /\ inherited = Untouched({})
    /\ existingState = None
    /\ CoordinatorIdle(DeviceShipped)
    /\ \E d \in { a \in AuthDecls : a.roles = 0 /\ a.tacacs = None /\ a.ldap = None } :
           HandlerIdle(d)

\* an empty store, no handler, and a device to which declarations are submitted
PlanInit ==
    /\ StoreInit
    /\ inherited = Untouched({})
    /\ HandlerIdle(NoAuthDecl(0))
    /\ existingState = None
    /\ \E d \in Devices : CoordinatorIdle(d)

\* process() is called
process ==
    /\ pc = "init"
    /\ Becomes(handleRemoteAuthRoles(Machine))

\* a pending remote call succeeds
CallSucceeds ==
    \E i \in DOMAIN calls :
        /\ calls[i].status = "pending"
        /\ Becomes(Settle(Machine, i, TRUE))

\* a pending remote call fails
CallFails ==
    \E i \in DOMAIN calls :
        /\ calls[i].status = "pending"
        /\ Becomes(Settle(Machine, i, FALSE))

AuthNext ==
    \/ process
    \/ CallSucceeds
    \/ CallFails

(***************************************************************************)
(* AuthHandler: properties                                                 *)
(***************************************************************************)
\* the place of a step in process()'s chain
StepIndex(step) ==
    CASE step = "roles" -> 1
      [] step = "radius" -> 2
      [] step = "tacacs" -> 3
      [] step = "ldap" -> 4
      [] step = "source" -> 5
      [] OTHER -> 6

\* a call of the given part was issued before call i and has succeeded
DoneBefore(i, part) ==
    \E j \in 1 .. (i - 1) : calls[j].part = part /\ calls[j].status = "ok"

\* C5 (as claimed): when a remote call of any step fails, process() rejects
\* and no remote call of a later step is issued.
C5_FailurePropagates ==
    \A i \in DOMAIN calls :
        calls[i].status = "failed" =>
            /\ pc = "rejected"
            /\ \A j \in DOMAIN calls :
                   StepIndex(calls[j].step) <= StepIndex(calls[i].step)

DeclaredRadiusServers ==
    CASE decl.radius = "both" -> { PRIMARY_SERVER, SECONDARY_SERVER }
      [] decl.radius = "primary" -> { PRIMARY_SERVER }
      [] OTHER -> {}

\* C6: the aggregate RADIUS object is upserted only after the upsert of
\* every declared server has succeeded, and its servers list names exactly
\* the declared servers.
C6_RadiusUpsertOrder ==
    \A i \in DOMAIN calls :
        calls[i].part = "radiusAggregate" =>
            /\ \A n \in DeclaredRadiusServers :
                   \E j \in 1 .. (i - 1) :
                       /\ calls[j].part = "radiusServer"
                       /\ calls[j].name = n
                       /\ calls[j].status = "ok"
            /\ Len(calls[i].servers) = Cardinality(DeclaredRadiusServers)
            /\ { calls[i].servers[k] : k \in DOMAIN calls[i].servers }
                   = DeclaredRadiusServers

\* the aggregate object was upserted for a primary and a secondary server
C6_Witness ==
    /\ decl.radius = "both"
    /\ CallsOf(calls, "radiusAggregate") # {}

\* C7: the secondary RADIUS server is deleted only when no secondary is
\* declared, and only after the upsert of the aggregate object, listing the
\* primary alone, has succeeded.
C7_SecondaryRemovalOrder ==
    \A i \in DOMAIN calls :
        calls[i].part = "radiusDelete" =>
            /\ decl.radius = "primary"
            /\ calls[i].op = "delete"
            /\ calls[i].name = SECONDARY_SERVER
            /\ \E j \in 1 .. (i - 1) :
                   /\ calls[j].part = "radiusAggregate"
                   /\ calls[j].status = "ok"
                   /\ calls[j].servers = << PRIMARY_SERVER >>

\* the secondary server was deleted
C7_Witness ==
    \E i \in DOMAIN calls : calls[i].part = "radiusDelete" /\ calls[i].status = "ok"

\* C8: the LDAP object is upserted only after the upload and the
\* installation of every inline certificate or key have succeeded; when an
\* upload or an installation fails, the LDAP object is never upserted and
\* the handler rejects.
C8_LdapCertOrder ==
    /\ \A i \in DOMAIN calls :
           calls[i].part = "ldap" =>
               \A c \in InlineCerts :
                   \A part \in { "upload", "install" } :
                       \E j \in 1 .. (i - 1) :
                           /\ calls[j].part = part
                           /\ calls[j].cert = c
                           /\ calls[j].status = "ok"
    /\ (\E j \in DOMAIN calls :
            calls[j].part \in { "upload", "install" } /\ calls[j].status = "failed")
         => (CallsOf(calls, "ldap") = {} /\ pc = "rejected")

\* the LDAP object was upserted after two certificate chains
C8_Witness ==
    /\ Cardinality(InlineCerts) >= 2
    /\ CallsOf(calls, "ldap") # {}

\* C9 (as claimed): the auth source is modified only after the upsert of
\* every declared per-method object (RADIUS aggregate, TACACS, LDAP) has
\* succeeded in this run.
C9_SourceIsLast ==
    \A i \in DOMAIN calls :
        calls[i].part = "source" =>
            /\ decl.radius \in { "primary", "both" } => DoneBefore(i, "radiusAggregate")
            /\ IsSome(decl.tacacs) => DoneBefore(i, "tacacs")
            /\ IsSome(decl.ldap) => DoneBefore(i, "ldap")

\* handleTacacs has run: its call is pending, or a later step has issued a
\* call, or process() has resolved
TacacsStepTaken ==
    \/ pc = "tacacs"
    \/ pc = "resolved" /\ decl.hasAuth
    \/ \E j \in DOMAIN calls : StepIndex(calls[j].step) > StepIndex("tacacs")

\* C20: when TACACS is declared, handleTacacs issues exactly one remote
\* call, a createOrModify of the TACACS auth object, whose body has
\* accounting 'send-to-first-server', authentication 'use-first-server' and
\* debug 'disabled' unless declared otherwise, encryption 'disabled' only
\* when declared false and 'enabled' otherwise, and protocol only when it is
\* declared; when TACACS is not declared no TACACS call is issued.
C20_TacacsUpsert ==
    IF ~ IsSome(decl.tacacs)
    THEN CallsOf(calls, "tacacs") = {}
    ELSE LET t == decl.tacacs[1]
         IN  /\ Cardinality(CallsOf(calls, "tacacs")) <= 1
             /\ TacacsStepTaken => Cardinality(CallsOf(calls, "tacacs")) = 1
             /\ \A i \in CallsOf(calls, "tacacs") :
                    LET p == calls[i].props
                    IN  /\ calls[i].op = "createOrModify"
                        /\ calls[i].path = "AuthTacacs"
                        /\ calls[i].name = SUBCLASSES_NAME
                        /\ t.accounting = None => p.accounting = "send-to-first-server"
                        /\ IsSome(t.accounting) => p.accounting = t.accounting[1]
                        /\ t.authentication = None => p.authentication = "use-first-server"
                        /\ IsSome(t.authentication) => p.authentication = t.authentication[1]
                        /\ t.debug = None => p.debug = "disabled"
                        /\ t.debug = Some(TRUE) => p.debug = "enabled"
                        /\ t.encryption = Some(FALSE) => p.encryption = "disabled"
                        /\ t.encryption # Some(FALSE) => p.encryption = "enabled"
                        /\ IsSome(t.protocol) =>
                              "protocol" \in DOMAIN p /\ p.protocol = t.protocol[1]
                        /\ t.protocol = None => "protocol" \notin DOMAIN p

\* the TACACS object was upserted for a declaration that leaves every
\* optional flag out, and the run went on to a later step
C20_Witness ==
    /\ decl.tacacs = Some(TacacsDefault)
    /\ \E i \in CallsOf(calls, "tacacs") : calls[i].status = "ok"
    /\ \E j \in DOMAIN calls : calls[j].step = "source"

\* C21: process() issues exactly one createOrModify per declared
\* RemoteAuthRole entry, all of them in its first step and hence before any
\* of them has completed; a call of a later step is issued, and process()
\* resolves, only when every one of them has succeeded.
C21_RolesInParallel ==
    /\ [][ pc = "init" /\ pc' # "init" =>
              /\ Cardinality(CallsOf(calls', "role")) = decl.roles
              /\ \A n \in 1 .. decl.roles :
                     /\ calls'[n].part = "role"
                     /\ calls'[n].idx = n
                     /\ calls'[n].op = "createOrModify"
                     /\ calls'[n].path = "AuthRemoteRole"
                     /\ calls'[n].status = "pending" ]_vars
    /\ [] ( pc # "init" => Cardinality(CallsOf(calls, "role")) = decl.roles )
    /\ [] ( ((\E j \in DOMAIN calls : calls[j].step # "roles") \/ pc = "resolved")
               => AllOk(calls, "role") )

\* two entries are declared, both upserts have succeeded and the next step
\* has issued a call
C21_Witness ==
    /\ decl.roles = 2
    /\ Cardinality(CallsOf(calls, "role")) = 2
    /\ AllOk(calls, "role")
    /\ \E j \in DOMAIN calls : calls[j].step # "roles"

\* the RADIUS objects of the device: the names of its RADIUS server objects
\* and the names the aggregate RADIUS object lists.  deviceAfter is the
\* device d0 once the effects of the calls in applied have reached it, in
\* issue order: an upsert of a server creates it, the upsert of the
\* aggregate object replaces its list, the delete removes the server
deviceAfter(d0, cs, applied) ==
    LET upserted == { cs[i].name : i \in { j \in applied : cs[j].part = "radiusServer" } }
        lists == { i \in applied : cs[i].part = "radiusAggregate" }
        deleted == { cs[i].name : i \in { j \in applied : cs[j].part = "radiusDelete" } }
    IN  [ servers |-> (d0.servers \cup upserted) \ deleted,
          aggregate |-> IF lists = {} THEN d0.aggregate
                        ELSE UNION { { cs[i].servers[k] : k \in DOMAIN cs[i].servers } :
                                       i \in lists } ]

\* the calls of handleRadius that have succeeded, and those that are pending
\* or have failed, whose effect may or may not have reached the device
RadiusDone == { i \in DOMAIN calls : calls[i].step = "radius" /\ calls[i].status = "ok" }
RadiusOpen == { i \in DOMAIN calls : calls[i].step = "radius" /\ calls[i].status # "ok" }

\* C28: on a device where every server the aggregate RADIUS object lists
\* exists before handleRadius starts, every server it lists exists at every
\* point of the run, whichever calls fail and whether or not the effect of a
\* pending or failed call has reached the device.
C28_NoDanglingRadiusServer ==
    \A d0 \in [ servers : SUBSET { PRIMARY_SERVER, SECONDARY_SERVER },
                 aggregate : SUBSET { PRIMARY_SERVER, SECONDARY_SERVER } ] :
        d0.aggregate \subseteq d0.servers =>
            \A reached \in SUBSET RadiusOpen :
                LET d == deviceAfter(d0, calls, RadiusDone \cup reached)
                IN  d.aggregate \subseteq d.servers

\* a device that had both servers, listed by the aggregate object, is left
\* with the primary alone after a run that declares the primary only
C28_Witness ==
    /\ decl.radius = "primary"
    /\ RadiusOpen = {}
    /\ LET both == { PRIMARY_SERVER, SECONDARY_SERVER }
           d == deviceAfter([ servers |-> both, aggregate |-> both ], calls, RadiusDone)
       IN  d.servers = { PRIMARY_SERVER } /\ d.aggregate = { PRIMARY_SERVER }

\* C29 (as claimed): once the promise returned by process() is settled, no
\* remote call of the handler is pending and the handler issues no further
\* remote call.
C29_QuiescentWhenSettled ==
    /\ [] ( pc \in { "resolved", "rejected" } =>
               \A i \in DOMAIN calls : calls[i].status # "pending" )
    /\ [][ (pc = "resolved" \/ pc = "rejected") => Len(calls') = Len(calls) ]_vars

\* C30 (as claimed): every remote call whose payload carries secret material
\* is issued with the silent option set.
C30_SecretsAreSilent ==
    \A i \in DOMAIN calls : calls[i].secret => calls[i].silent

\* C31: the remote calls of process() are issued step by step in the order
\* remote-auth-roles, RADIUS, TACACS, LDAP, source, remote-users-defaults
\* (along the calls in issue order the step never goes back), and when a
\* call of a step has been issued no call of an earlier step is still
\* pending (a pending call belongs to the step of the latest call).
C31_StrictStepOrder ==
    /\ \A i \in 1 .. Len(calls) - 1 :
           StepIndex(calls[i].step) <= StepIndex(calls[i + 1].step)
    /\ \A i \in DOMAIN calls :
           calls[i].status = "pending" => calls[i].step = calls[Len(calls)].step

\* process() has resolved after calls of all six steps
C31_Witness ==
    /\ pc = "resolved"
    /\ decl.hasAuth
    /\ \A k \in 1 .. 6 : \E i \in DOMAIN calls : StepIndex(calls[i].step) = k

\* C37: without Authentication only the remote-auth-role upserts are issued,
\* one per declared role; without radius, or with radius lacking a primary
\* server, no RADIUS call is issued; without tacacs no TACACS call and
\* without ldap no LDAP call (nor certificate call) is issued.
C37_UndeclaredUntouched ==
    /\ ~ decl.hasAuth =>
          /\ \A i \in DOMAIN calls : calls[i].part = "role"
          /\ Len(calls) <= decl.roles
    /\ decl.radius \in { "none", "noPrimary" } =>
          \A i \in DOMAIN calls : calls[i].step # "radius"
    /\ decl.tacacs = None => \A i \in DOMAIN calls : calls[i].step # "tacacs"
    /\ decl.ldap = None => \A i \in DOMAIN calls : calls[i].step # "ldap"

\* process() has resolved for an Authentication whose radius has no primary
\* server and which has neither tacacs nor ldap
C37_Witness ==
    /\ pc = "resolved"
    /\ decl.hasAuth
    /\ decl.radius = "noPrimary"
    /\ decl.tacacs = None
    /\ decl.ldap = None
    /\ decl.roles > 0
    /\ \E i \in DOMAIN calls : calls[i].step = "source"

\* the calls issued for a certificate, by part
CertCalls(c, part) == { i \in DOMAIN calls : calls[i].cert = c /\ calls[i].part = part }

\* C38: for each inline certificate or key at most one upload, one
\* installation and one removal are issued, in that order; the installation
\* is issued only after the upload succeeded and the removal only after the
\* installation succeeded, so that after a failed upload or installation no
\* later call of that certificate exists; no call is issued for a
\* certificate that is not inline.
C38_CertSequence ==
    \A j \in DOMAIN calls :
        LET c == calls[j].cert
            Before(part) ==
                \E i \in 1 .. j - 1 :
                    calls[i].cert = c /\ calls[i].part = part /\ calls[i].status = "ok"
        IN  c # "" =>
              /\ c \in InlineCerts
              /\ calls[j].part \in { "upload", "install", "remove" }
              /\ \A i \in 1 .. j - 1 :
                     ~ (calls[i].cert = c /\ calls[i].part = calls[j].part)
              /\ calls[j].part = "install" => Before("upload")
              /\ calls[j].part = "remove" => Before("install")

\* one certificate has gone through its three calls, the upload of another
\* has failed
C38_Witness ==
    \E c \in CertNames, d \in CertNames :
        /\ \E k \in CertCalls(c, "remove") : calls[k].status = "ok"
        /\ \E i \in CertCalls(d, "upload") : calls[i].status = "failed"
        /\ CertCalls(d, "install") = {}

(***************************************************************************)
(* Specifications                                                          *)
(***************************************************************************)
\* the store, driven by its callers
Spec == StateInit /\ [][StateNext]_vars

\* the store, driven by callers that also pass an inherited property name
\* as a task id
SpecOutside == OutsideInit /\ [][StateNext]_vars

\* the store, its configuration setters and a caller that changes the
\* object it passed
SpecSnapshot == StateInit /\ [][SnapshotNext]_vars

\* the store, re-created from the data a previous run or release left
SpecLoad == LoadInit /\ [][LoadNext]_vars

\* one run of AuthHandler.process against a device whose calls succeed or fail
SpecAuth == AuthInit /\ [][AuthNext]_vars

\* one run of AuthHandler.process for a declaration without roles, TACACS and LDAP
SpecRadius == RadiusInit /\ [][AuthNext]_vars

\* declarations reconciled one after the other against one device
SpecPlan == PlanInit /\ [][PlanNext]_vars
=============================================================================
